---- MODULE Spec2Model ----
(***************************************************************************)
(* Model of the orchestration core of sehatlink: the LangGraph routing     *)
(* state machine (core/langgraph/agent.py), the agent nodes that feed it   *)
(* (core/langgraph/utils/*_agent.py, tools.py) and the MCP client pool     *)
(* singleton (core/langgraph/utils/tool_manager.py).                       *)
(*                                                                         *)
(* The language model is an input: every node execution draws the outcome  *)
(* of its reasoning call (an exception, or a message carrying 0..MaxCalls  *)
(* tool calls) and of its structured-decision call (an exception, None, a  *)
(* value of an unexpected type, or a set of routing flags) from finite     *)
(* sets.  A graph step is one node execution followed by the evaluation of *)
(* the conditional edge leaving that node, as the graph engine does it.    *)
(*                                                                         *)
(* The chat layer (main.py, routers/logout.py, routers/patient.py) follows *)
(* one user's Redis checkpoint, longterm_session row and WebSocket         *)
(* handler: load-or-seed, the frames sent for the events of a streamed     *)
(* run, the final frame, logout and new-chat.  There the graph run is a    *)
(* source of events that walks the edges of the graph.                     *)
(*                                                                         *)
(* Three smaller models stand beside them: the chat_socket handlers of     *)
(* several connections that name the same thread, the reducers of          *)
(* core/langgraph/utils/state.py applied to the channels of one thread,    *)
(* and the tool cache of an initialized pool under get_tools,              *)
(* execute_tool_calls and refresh_tools.  The Redis keys and the           *)
(* longterm_session rows of several users are followed under logout and    *)
(* new-chat, with the key pattern matched as Redis matches it.             *)
(***************************************************************************)
EXTENDS Integers, Sequences, FiniteSets, TLC

VARIABLES
    messages,               \* MedicalAgentState.messages (most recent MaxHist entries)
    tool_call_count,        \* MedicalAgentState.tool_call_count
    error_count,            \* MedicalAgentState.error_count
    current_agent,          \* MedicalAgentState.current_agent
    prescription_processed, \* MedicalAgentState.prescription_processed
    pc,                     \* node the graph engine runs next, or idle/END/raised
    prev,                   \* node that ran last in this turn (START at turn entry)
    llm,                    \* outcomes of the two capability calls of the last node
    delta,                  \* partial update returned by the last node
    tool_requesters,        \* agent nodes whose reasoning message asked for tools this turn
    pool_instance,          \* MCPClientPool._instance: "None" or "pool"
    pool_initialized,       \* the instance's _initialized
    pool_healthy,           \* the instance's _connection_healthy
    pool_tools_loaded,      \* the instance's _all_tools / tools_by_name are filled
    pool_lock,              \* holder of MCPClientPool._lock, 0 when free
    task_pc,                \* where each task is in get_instance / get_tools
    connection_attempts,    \* client creations followed by a capability-list fetch
    fetch_failures,         \* capability-list fetches that raised
    redis_state,            \* latest checkpoint of thread user_<id> in Redis
    longterm_session,       \* the user's row of the longterm_session table
    ws_pc,                  \* where chat_socket is in its receive loop
    client,                 \* the client end of the WebSocket: connected or gone
    streaming,              \* payload.get("streaming", True) of the inbound message
    sent,                   \* frames sent to the client for the inbound message
    run,                    \* the graph run behind astream_events / ainvoke
    current_node,           \* run_graph_for_user_streaming: current_node
    llm_call_count,         \* llm_call_count_per_node[current_node]
    result,                 \* value returned by run_graph_for_user(_streaming)
    http_response,          \* response of the last logout / new-chat request
    server_tools,           \* names of the tools the MCP server lists at the moment
    all_tools,              \* names of the tools in the instance's _all_tools
    tools_by_name,          \* keys of the instance's tools_by_name
    refresh_pc,             \* where a task that called refresh_tools is
    exec_pc,                \* where a task that called execute_tool_calls is
    tool_calls,             \* execute_tool_calls: its argument
    tool_messages,          \* execute_tool_calls: tool_messages
    allowed_tools,          \* get_tools: its argument of the last call
    filtered,               \* get_tools: the list returned by the last call
    socket_pc,              \* where the chat_socket handler of each connection is
    socket_user,            \* the user_id of the message each handler is serving
    thread_turns,           \* per user: turns whose final checkpoint is in Redis
    socket_read,            \* the value of thread_turns each handler's run started from
    channels,               \* channel values of one thread of MedicalAgentState
    checkpoints,            \* per user: the latest checkpoint key of thread user_<id> in Redis
    rows                    \* per user: the row of the longterm_session table

graph_vars == <<messages, tool_call_count, error_count, current_agent,
                prescription_processed, pc, prev, llm, delta, tool_requesters>>

pool_vars == <<pool_instance, pool_initialized, pool_healthy, pool_tools_loaded,
               pool_lock, task_pc, connection_attempts, fetch_failures>>

chat_vars == <<redis_state, longterm_session, ws_pc, client, streaming, sent, run,
               current_node, llm_call_count, result, http_response>>

cache_vars == <<server_tools, all_tools, tools_by_name, refresh_pc, exec_pc,
                tool_calls, tool_messages, allowed_tools, filtered>>

socket_vars == <<socket_pc, socket_user, thread_turns, socket_read>>

reducer_vars == <<channels>>

store_vars == <<checkpoints, rows>>

----------------------------------------------------------------------------
(* Bounds *)

NumTasks == 3       \* tasks that use the pool concurrently
MaxCalls == 2       \* most tool calls one reasoning message requests
MaxHist == 1        \* entries of the conversation log the model retains
ToolCountCap == 10  \* tool_call_count is tracked up to this value
ErrCountCap == 3    \* error_count is tracked up to this value
MaxFacts == 1       \* durable facts (symptoms_collected entries) a session tracks
MaxLog == 1         \* the length of a session's conversation log is tracked up to this
RecursionLimit == 3 \* supersteps the graph engine runs in one turn before it raises
                    \* (the engine's default applies: the run configs set none)
NumSockets == 2     \* WebSocket connections open at the same time
NumUsers == 2       \* users that send messages
MaxTurns == 2       \* a thread's completed turns are counted up to this value
MaxBatch == 2       \* most calls in one tool_calls argument of execute_tool_calls
MaxEntries == 2     \* entries of messages and user_messages the reducer model follows

(* Program constants *)

max_tool_calls == 10
max_errors == 3

----------------------------------------------------------------------------
(* Messages *)

HumanMessage(img) == [type |-> "human", tool_calls |-> 0, image |-> img, status |-> "na"]
AIMessage(n) == [type |-> "ai", tool_calls |-> n, image |-> FALSE, status |-> "na"]
ToolMessage(st) == [type |-> "tool", tool_calls |-> 0, image |-> FALSE, status |-> st]
\* the plain string the program and doctor nodes substitute for a failed reasoning call
RetryString == [type |-> "str", tool_calls |-> 0, image |-> FALSE, status |-> "na"]

\* hasattr(last_message, "tool_calls") and last_message.tool_calls
HasToolCalls(m) == m.type = "ai" /\ m.tool_calls > 0

\* hasattr(tool_llm_response, 'content')
HasContent(m) == m.type # "str"

Last(s) == s[Len(s)]

\* The routers and nodes read messages[-1] and the newest HumanMessage only, so
\* the model keeps the newest MaxHist entries of the append-only log.
Retain(s) == IF Len(s) <= MaxHist THEN s ELSE SubSeq(s, Len(s) - MaxHist + 1, Len(s))

Min(a, b) == IF a < b THEN a ELSE b

----------------------------------------------------------------------------
(* Names *)

NoKey == "<absent>"
NoInt == -1
Default == "__default__"

AgentNodes == {"triage", "symptom", "program", "doctor"}
ToolNodes == {"triage_tools", "symptom_tools", "program_tools", "doctor_tools"}
AgentNames == {"triage_agent", "symptom_agent", "programme_eligibility_agent", "doctor_agent"}

\* graph.add_edge(<x>_tools, <x>)
OwnerOf(t) ==
    CASE t = "triage_tools" -> "triage"
      [] t = "symptom_tools" -> "symptom"
      [] t = "program_tools" -> "program"
      [] t = "doctor_tools" -> "doctor"

State == [messages |-> messages,
          tool_call_count |-> tool_call_count,
          error_count |-> error_count,
          current_agent |-> current_agent,
          prescription_processed |-> prescription_processed]

EmptyDelta == [raised |-> FALSE,
               current_agent |-> NoKey,
               messages |-> <<>>,
               user_messages |-> NoKey,
               tool_call_count |-> NoInt,
               error_count |-> NoInt,
               prescription_processed |-> <<>>]

Raised == [EmptyDelta EXCEPT !.raised = TRUE]

\* The channel reducers of MedicalAgentState: messages is Annotated with
\* operator.add, the other modelled fields are last-value channels.
Apply(s, d) ==
    [messages |-> Retain(s.messages \o d.messages),
     tool_call_count |-> IF d.tool_call_count = NoInt THEN s.tool_call_count
                         ELSE Min(d.tool_call_count, ToolCountCap),
     error_count |-> IF d.error_count = NoInt THEN s.error_count
                     ELSE Min(d.error_count, ErrCountCap),
     current_agent |-> IF d.current_agent = NoKey THEN s.current_agent
                       ELSE d.current_agent,
     prescription_processed |-> IF d.prescription_processed = <<>>
                                THEN s.prescription_processed
                                ELSE d.prescription_processed[1]]

----------------------------------------------------------------------------
(* Routers: core/langgraph/agent.py *)

\* for msg in reversed(messages): the newest HumanMessage, scanning from the end
RECURSIVE NewestHuman(_, _)
NewestHuman(ms, i) ==
    IF i = 0 THEN [type |-> "none", tool_calls |-> 0, image |-> FALSE, status |-> "na"]
    ELSE IF ms[i].type = "human" THEN ms[i]
    ELSE NewestHuman(ms, i - 1)

ByCurrentAgent_swapped(curr) ==
    CASE curr = Default -> "triage"
      [] curr = "triage_agent" -> "triage"
      [] curr = "symptom_agent" -> "symptom"
      [] curr = "programme_eligibility_agent" -> "doctor"
      [] curr = "doctor_agent" -> "program"
      [] OTHER -> "symptom"

ByCurrentAgent(curr) ==
    CASE curr = Default -> "triage"
      [] curr = "triage_agent" -> "triage"
      [] curr = "symptom_agent" -> "symptom"
      [] curr = "programme_eligibility_agent" -> "program"
      [] curr = "doctor_agent" -> "doctor"
      [] OTHER -> "triage"

start_router_by_agent_first(s) ==
    IF s.current_agent # Default THEN ByCurrentAgent(s.current_agent)
    ELSE IF NewestHuman(s.messages, Len(s.messages)).image
            /\ ~s.prescription_processed THEN "prescription"
    ELSE "triage"

start_router_ignoring_processed(s) ==
    IF NewestHuman(s.messages, Len(s.messages)).image THEN "prescription"
    ELSE ByCurrentAgent(s.current_agent)

start_router(s) ==
    IF NewestHuman(s.messages, Len(s.messages)).image /\ ~s.prescription_processed
    THEN "prescription"
    ELSE ByCurrentAgent(s.current_agent)

should_continue_symptom(s) ==
    IF s.tool_call_count >= max_tool_calls THEN "max_iterations"
    ELSE IF s.error_count >= max_errors THEN "__end__"
    ELSE IF HasToolCalls(Last(s.messages)) THEN "tools"
    ELSE IF s.current_agent = "programme_eligibility_agent" THEN "program"
    ELSE IF s.current_agent = "doctor_agent" THEN "doctor"
    ELSE "__end__"

should_continue_program(s) ==
    IF s.error_count >= max_errors THEN "__end__"
    ELSE IF HasToolCalls(Last(s.messages)) THEN "tools"
    ELSE IF s.current_agent = "symptom_agent" THEN "symptom"
    ELSE IF s.current_agent = "doctor_agent" THEN "doctor"
    ELSE "__end__"

should_continue_doctor(s) ==
    IF s.error_count >= max_errors THEN "__end__"
    ELSE IF HasToolCalls(Last(s.messages)) THEN "tools"
    ELSE IF s.current_agent = "symptom_agent" THEN "symptom"
    ELSE IF s.current_agent = "programme_eligibility_agent" THEN "program"
    ELSE "__end__"

should_continue_traige(s) ==
    IF HasToolCalls(Last(s.messages)) THEN "tools"
    ELSE IF s.current_agent = "symptom_agent" THEN "symptom"
    ELSE IF s.current_agent = "programme_eligibility_agent" THEN "program"
    ELSE IF s.current_agent = "doctor_agent" THEN "doctor"
    ELSE "continue"

\* The path maps of build_triage_agent's add_conditional_edges calls.
EdgeFrom(node, s) ==
    CASE node = "triage" ->
            LET r == should_continue_traige(s) IN
            IF r = "tools" THEN "triage_tools"
            ELSE IF r = "continue" THEN "language" ELSE r
      [] node = "symptom" ->
            LET r == should_continue_symptom(s) IN
            IF r = "tools" THEN "symptom_tools"
            ELSE IF r = "__end__" THEN "urgency" ELSE r
      [] node = "program" ->
            LET r == should_continue_program(s) IN
            IF r = "tools" THEN "program_tools"
            ELSE IF r = "__end__" THEN "END" ELSE r
      [] node = "doctor" ->
            LET r == should_continue_doctor(s) IN
            IF r = "tools" THEN "doctor_tools"
            ELSE IF r = "__end__" THEN "END" ELSE r

----------------------------------------------------------------------------
(* Capability-call outcomes *)

\* reasoning call: it raises, or it returns a message carrying 0..MaxCalls tool calls
ReasoningFails == -1
Reasonings == {ReasoningFails} \cup (0 .. MaxCalls)

\* structured-decision call: an exception, None, a value of an unexpected type
\* (for triage: a string that is not JSON), or the set of flags returned true
Failures == {"raise", "none", "bad"}
FlagsOf(node) ==
    CASE node = "triage" -> {"symptom", "programme", "doctor"}
      [] node = "symptom" -> {"programme", "doctor"}
      [] node = "program" -> {"symptom", "doctor"}
      [] node = "doctor" -> {"symptom", "programme"}
Decisions(node) ==
    {[kind |-> k, flags |-> {}] : k \in Failures}
    \cup {[kind |-> "ok", flags |-> F] : F \in SUBSET FlagsOf(node)}

NotCalled == -2
NoDecision == [kind |-> "n/a", flags |-> {}]
NoCalls == [r |-> NotCalled, d |-> NoDecision]

----------------------------------------------------------------------------
(* Agent nodes *)

TriageAgent_run_doctor_first(s, r, d) ==
    IF r = ReasoningFails \/ d.kind = "none" THEN Raised
    ELSE LET F == IF d.kind \in {"raise", "bad"} THEN {} ELSE d.flags IN
         IF "doctor" \in F THEN [EmptyDelta EXCEPT !.current_agent = "doctor_agent"]
         ELSE IF "programme" \in F
              THEN [EmptyDelta EXCEPT !.current_agent = "programme_eligibility_agent"]
         ELSE IF "symptom" \in F THEN [EmptyDelta EXCEPT !.current_agent = "symptom_agent"]
         ELSE [EmptyDelta EXCEPT !.current_agent = "triage_agent",
                                 !.messages = <<AIMessage(r)>>,
                                 !.user_messages = IF d.kind \in {"raise", "bad"}
                                                   THEN "generic" ELSE "response"]

\* TriageAgent.run: the first true flag returns early with current_agent only
TriageAgent_run(s, r, d) ==
    IF r = ReasoningFails \/ d.kind = "none" THEN Raised
    ELSE LET F == IF d.kind \in {"raise", "bad"} THEN {} ELSE d.flags IN
         IF "symptom" \in F THEN [EmptyDelta EXCEPT !.current_agent = "symptom_agent"]
         ELSE IF "programme" \in F
              THEN [EmptyDelta EXCEPT !.current_agent = "programme_eligibility_agent"]
         ELSE IF "doctor" \in F THEN [EmptyDelta EXCEPT !.current_agent = "doctor_agent"]
         ELSE [EmptyDelta EXCEPT !.current_agent = "triage_agent",
                                 !.messages = <<AIMessage(r)>>,
                                 !.user_messages = IF d.kind \in {"raise", "bad"}
                                                   THEN "generic" ELSE "response"]

\* SymptomAgentNode.run: the reasoning call is not guarded; programme is
\* written first and doctor after it
SymptomAgentNode_run(s, r, d) ==
    IF r = ReasoningFails THEN Raised
    ELSE IF d.kind \in {"raise", "bad"} THEN [EmptyDelta EXCEPT !.user_messages = "generic"]
    ELSE IF d.kind = "none" THEN [EmptyDelta EXCEPT !.user_messages = "fallback",
                                               !.messages = <<AIMessage(r)>>]
    ELSE [EmptyDelta EXCEPT
            !.current_agent = IF "doctor" \in d.flags THEN "doctor_agent"
                              ELSE IF "programme" \in d.flags THEN "programme_eligibility_agent"
                              ELSE NoKey,
            !.messages = <<AIMessage(r)>>,
            !.user_messages = "response"]

\* ProgrammeEligibilityNode.run: a failed reasoning call becomes a plain string
\* a variant of ProgrammeEligibilityNode.run that names the symptom agent by
\* its node
ProgrammeEligibilityNode_run_node_name(s, r, d) ==
    LET tool_llm_response == IF r = ReasoningFails THEN RetryString ELSE AIMessage(r) IN
    IF d.kind \in {"raise", "bad"} THEN [EmptyDelta EXCEPT !.user_messages = "generic"]
    ELSE IF d.kind = "none"
         THEN [EmptyDelta EXCEPT !.user_messages = "fallback",
                                 !.messages = IF HasContent(tool_llm_response)
                                              THEN <<tool_llm_response>> ELSE <<>>]
    ELSE [EmptyDelta EXCEPT
            !.current_agent = IF "doctor" \in d.flags THEN "doctor_agent"
                              ELSE IF "symptom" \in d.flags THEN "symptom"
                              ELSE NoKey,
            !.messages = <<tool_llm_response>>,
            !.user_messages = "response"]

ProgrammeEligibilityNode_run(s, r, d) ==
    LET tool_llm_response == IF r = ReasoningFails THEN RetryString ELSE AIMessage(r) IN
    IF d.kind \in {"raise", "bad"} THEN [EmptyDelta EXCEPT !.user_messages = "generic"]
    ELSE IF d.kind = "none"
         THEN [EmptyDelta EXCEPT !.user_messages = "fallback",
                                 !.messages = IF HasContent(tool_llm_response)
                                              THEN <<tool_llm_response>> ELSE <<>>]
    ELSE [EmptyDelta EXCEPT
            !.current_agent = IF "doctor" \in d.flags THEN "doctor_agent"
                              ELSE IF "symptom" \in d.flags THEN "symptom_agent"
                              ELSE NoKey,
            !.messages = <<tool_llm_response>>,
            !.user_messages = "response"]

\* DoctorAgentNode.run: messages[-1].content is read unguarded, and a decision
\* that is neither a model nor a dict raises ValueError
DoctorAgentNode_run(s, r, d) ==
    LET tool_llm_response == IF r = ReasoningFails THEN RetryString ELSE AIMessage(r) IN
    IF ~HasContent(Last(s.messages)) THEN Raised
    ELSE IF d.kind = "raise" THEN [EmptyDelta EXCEPT !.user_messages = "generic"]
    ELSE IF d.kind \in {"none", "bad"} THEN Raised
    ELSE [EmptyDelta EXCEPT
            !.current_agent = IF "programme" \in d.flags THEN "programme_eligibility_agent"
                              ELSE IF "symptom" \in d.flags THEN "symptom_agent"
                              ELSE NoKey,
            !.messages = <<tool_llm_response>>,
            !.user_messages = "response"]

\* whether the node gets as far as its structured-decision call
ReachedDecision(node, s, r) ==
    CASE node \in {"triage", "symptom"} -> r # ReasoningFails
      [] node = "program" -> TRUE
      [] node = "doctor" -> HasContent(Last(s.messages))

RunAgent(node, s, r, d) ==
    CASE node = "triage" -> TriageAgent_run(s, r, d)
      [] node = "symptom" -> SymptomAgentNode_run(s, r, d)
      [] node = "program" -> ProgrammeEligibilityNode_run(s, r, d)
      [] node = "doctor" -> DoctorAgentNode_run(s, r, d)

----------------------------------------------------------------------------
(* Other nodes *)

\* the tool messages execute_tool_calls returns: one per call, each ok or error
Outcomes(n) == [1 .. n -> {"ok", "error"}]

NumErrors(o) == Cardinality({i \in DOMAIN o : o[i] = "error"})

\* a variant of mcp_tool_node that counts a batch with failed calls as one error
mcp_tool_node_counting_batches(s, o) ==
    IF ~HasToolCalls(Last(s.messages))
    THEN [EmptyDelta EXCEPT !.error_count = s.error_count]
    ELSE [EmptyDelta EXCEPT
            !.messages = [i \in 1 .. Len(o) |-> ToolMessage(o[i])],
            !.tool_call_count = s.tool_call_count + Len(o),
            !.error_count = s.error_count + IF NumErrors(o) > 0 THEN 1 ELSE 0]

\* a variant of mcp_tool_node that reports the errors of the batch alone
mcp_tool_node_per_batch(s, o) ==
    IF ~HasToolCalls(Last(s.messages))
    THEN [EmptyDelta EXCEPT !.error_count = s.error_count]
    ELSE [EmptyDelta EXCEPT
            !.messages = [i \in 1 .. Len(o) |-> ToolMessage(o[i])],
            !.tool_call_count = s.tool_call_count + Len(o),
            !.error_count = NumErrors(o)]

\* mcp_tool_node
mcp_tool_node(s, o) ==
    IF ~HasToolCalls(Last(s.messages))
    THEN [EmptyDelta EXCEPT !.error_count = s.error_count]
    ELSE [EmptyDelta EXCEPT
            !.messages = [i \in 1 .. Len(o) |-> ToolMessage(o[i])],
            !.tool_call_count = s.tool_call_count + Len(o),
            !.error_count = s.error_count + NumErrors(o)]

\* max_iterations_node
max_iterations_node(s) == [EmptyDelta EXCEPT !.messages = <<AIMessage(0)>>]

\* a variant of PrescriptionAgent.run that hands the session back to triage
PrescriptionAgent_run_resetting(s, ok) ==
    IF ~NewestHuman(s.messages, Len(s.messages)).image THEN EmptyDelta
    ELSE IF ~ok THEN [EmptyDelta EXCEPT !.messages = <<AIMessage(0)>>]
    ELSE [EmptyDelta EXCEPT !.prescription_processed = <<TRUE>>,
                            !.user_messages = "response",
                            !.current_agent = "triage_agent"]

\* PrescriptionAgent.run: the key "messsages" is not a channel of the state
PrescriptionAgent_run(s, ok) ==
    IF ~NewestHuman(s.messages, Len(s.messages)).image THEN EmptyDelta
    ELSE IF ~ok THEN [EmptyDelta EXCEPT !.messages = <<AIMessage(0)>>]
    ELSE [EmptyDelta EXCEPT !.prescription_processed = <<TRUE>>,
                            !.user_messages = "response"]

----------------------------------------------------------------------------
(* Actions *)

SetState(s) ==
    /\ messages' = s.messages
    /\ tool_call_count' = s.tool_call_count
    /\ error_count' = s.error_count
    /\ current_agent' = s.current_agent
    /\ prescription_processed' = s.prescription_processed

\* load_initial_state_from_db seeds none of the modelled keys but messages
Seed == [messages |-> <<>>, tool_call_count |-> 0, error_count |-> 0,
         current_agent |-> Default, prescription_processed |-> FALSE]

GraphInit ==
    /\ messages = Seed.messages
    /\ tool_call_count = Seed.tool_call_count
    /\ error_count = Seed.error_count
    /\ current_agent = Seed.current_agent
    /\ prescription_processed = Seed.prescription_processed
    /\ pc = "idle"
    /\ prev = "none"
    /\ llm = NoCalls
    /\ delta = EmptyDelta
    /\ tool_requesters = {}

InTurn == pc \notin {"idle", "END", "raised"}

\* run_graph_for_user: the inbound message is appended and START is routed
NewMessage ==
    /\ ~InTurn
    /\ \E img \in BOOLEAN :
         LET d == [EmptyDelta EXCEPT !.messages = <<HumanMessage(img)>>]
             s == Apply(State, d) IN
         /\ SetState(s)
         /\ delta' = d
         /\ pc' = start_router(s)
    /\ prev' = "START"
    /\ llm' = NoCalls
    /\ tool_requesters' = {}
    /\ UNCHANGED <<pool_vars, chat_vars, cache_vars, socket_vars, reducer_vars, store_vars>>

\* one agent node, then its conditional edge
AgentStep(node) ==
    /\ pc = node
    /\ \E r \in Reasonings, d \in Decisions(node) :
         LET dl == RunAgent(node, State, r, d)
             s == Apply(State, dl) IN
         /\ llm' = [r |-> r, d |-> IF ReachedDecision(node, State, r) THEN d ELSE NoDecision]
         /\ delta' = dl
         /\ SetState(s)
         /\ pc' = IF dl.raised THEN "raised" ELSE EdgeFrom(node, s)
         /\ tool_requesters' = IF r \in 1 .. MaxCalls
                               THEN tool_requesters \cup {node} ELSE tool_requesters
    /\ prev' = node

triage ==
    /\ AgentStep("triage")
    /\ UNCHANGED <<pool_vars, chat_vars, cache_vars, socket_vars, reducer_vars, store_vars>>

symptom ==
    /\ AgentStep("symptom")
    /\ UNCHANGED <<pool_vars, chat_vars, cache_vars, socket_vars, reducer_vars, store_vars>>

program ==
    /\ AgentStep("program")
    /\ UNCHANGED <<pool_vars, chat_vars, cache_vars, socket_vars, reducer_vars, store_vars>>

doctor ==
    /\ AgentStep("doctor")
    /\ UNCHANGED <<pool_vars, chat_vars, cache_vars, socket_vars, reducer_vars, store_vars>>

\* the four tool-execution nodes run mcp_tool_node and return to their agent
tools ==
    /\ pc \in ToolNodes
    /\ \E o \in Outcomes(Last(messages).tool_calls) :
         LET dl == mcp_tool_node(State, o) IN
         /\ delta' = dl
         /\ SetState(Apply(State, dl))
    /\ pc' = OwnerOf(pc)
    /\ prev' = pc
    /\ llm' = NoCalls
    /\ UNCHANGED tool_requesters
    /\ UNCHANGED <<pool_vars, chat_vars, cache_vars, socket_vars, reducer_vars, store_vars>>

max_iterations ==
    /\ pc = "max_iterations"
    /\ delta' = max_iterations_node(State)
    /\ SetState(Apply(State, delta'))
    /\ pc' = "END"
    /\ prev' = "max_iterations"
    /\ llm' = NoCalls
    /\ UNCHANGED tool_requesters
    /\ UNCHANGED <<pool_vars, chat_vars, cache_vars, socket_vars, reducer_vars, store_vars>>

prescription ==
    /\ pc = "prescription"
    /\ \E ok \in BOOLEAN :
         /\ delta' = PrescriptionAgent_run(State, ok)
         /\ llm' = [NoCalls EXCEPT !.r = IF ok THEN 0 ELSE ReasoningFails]
    /\ SetState(Apply(State, delta'))
    /\ pc' = "END"
    /\ prev' = "prescription"
    /\ UNCHANGED tool_requesters
    /\ UNCHANGED <<pool_vars, chat_vars, cache_vars, socket_vars, reducer_vars, store_vars>>

\* LanguageDetectorNode.run and UrgencyDetectorNode.run write none of the
\* modelled keys; both lead to END
language ==
    /\ pc = "language"
    /\ pc' = "END"
    /\ prev' = "language"
    /\ delta' = EmptyDelta
    /\ llm' = NoCalls
    /\ UNCHANGED <<messages, tool_call_count, error_count, current_agent,
                   prescription_processed, tool_requesters>>
    /\ UNCHANGED <<pool_vars, chat_vars, cache_vars, socket_vars, reducer_vars, store_vars>>

urgency ==
    /\ pc = "urgency"
    /\ pc' = "END"
    /\ prev' = "urgency"
    /\ delta' = EmptyDelta
    /\ llm' = NoCalls
    /\ UNCHANGED <<messages, tool_call_count, error_count, current_agent,
                   prescription_processed, tool_requesters>>
    /\ UNCHANGED <<pool_vars, chat_vars, cache_vars, socket_vars, reducer_vars, store_vars>>

\* routers/logout.py delete_redis_keys_for_user (new-chat and logout): the
\* checkpoint keys of the thread are deleted, the next message seeds the state
delete_redis_keys_for_user ==
    /\ ~InTurn
    /\ pc # "idle"
    /\ SetState(Seed)
    /\ pc' = "idle"
    /\ prev' = "none"
    /\ llm' = NoCalls
    /\ delta' = EmptyDelta
    /\ tool_requesters' = {}
    /\ UNCHANGED <<pool_vars, chat_vars, cache_vars, socket_vars, reducer_vars, store_vars>>

TurnStep ==
    \/ triage
    \/ symptom
    \/ program
    \/ doctor
    \/ tools
    \/ max_iterations
    \/ prescription
    \/ language
    \/ urgency

----------------------------------------------------------------------------
(* MCPClientPool: core/langgraph/utils/tool_manager.py                     *)
(*                                                                         *)
(* Tasks are asyncio coroutines on one event loop: code between two real   *)
(* suspension points runs atomically.  The suspension points are waiting   *)
(* for the held lock and awaiting client.get_tools().  Each task runs the  *)
(* prologue of a node: pool = await MCPClientPool.get_instance() followed  *)
(* by await pool.get_tools(...) (or execute_tool_calls, which starts with  *)
(* the same _initialized test).                                            *)

Tasks == 1 .. NumTasks

PoolInit ==
    /\ pool_instance = "None"
    /\ pool_initialized = FALSE
    /\ pool_healthy = FALSE
    /\ pool_tools_loaded = FALSE
    /\ pool_lock = 0
    /\ task_pc = [t \in Tasks |-> "start"]
    /\ connection_attempts = 0
    /\ fetch_failures = 0

\* get_tools / execute_tool_calls on the returned instance:
\* if not self._initialized: await self._initialize_client()
get_tools(t) ==
    IF ~pool_initialized
    THEN /\ connection_attempts' = connection_attempts + 1
         /\ task_pc' = [task_pc EXCEPT ![t] = "get_tools_fetch"]
    ELSE /\ task_pc' = [task_pc EXCEPT ![t] = "done"]
         /\ UNCHANGED connection_attempts

\* get_instance up to its first suspension point
get_instance(t) ==
    /\ task_pc[t] = "start"
    /\ IF pool_instance = "None"
       THEN IF pool_lock = 0
            THEN \* lock taken, second test passes, instance published, then
                 \* _initialize_client creates the client and awaits the fetch
                 /\ pool_lock' = t
                 /\ pool_instance' = "pool"
                 /\ pool_initialized' = FALSE
                 /\ pool_healthy' = FALSE
                 /\ pool_tools_loaded' = FALSE
                 /\ connection_attempts' = connection_attempts + 1
                 /\ task_pc' = [task_pc EXCEPT ![t] = "get_instance_fetch"]
                 /\ all_tools' = <<>>
                 /\ tools_by_name' = {}
                 /\ UNCHANGED fetch_failures
            ELSE \* the lock is held: the task would wait for it.  The holder
                 \* publishes _instance in the step that takes the lock, so
                 \* no task finds _instance None and the lock held.
                 /\ task_pc' = [task_pc EXCEPT ![t] = "wait_lock"]
                 /\ UNCHANGED <<pool_instance, pool_initialized, pool_healthy,
                                pool_tools_loaded, pool_lock, connection_attempts,
                                fetch_failures, all_tools, tools_by_name>>
       ELSE \* the instance is returned as it is; the caller goes on to get_tools
            /\ get_tools(t)
            /\ UNCHANGED <<pool_instance, pool_initialized, pool_healthy,
                           pool_tools_loaded, pool_lock, fetch_failures,
                           all_tools, tools_by_name>>
    /\ UNCHANGED <<server_tools, refresh_pc, exec_pc, tool_calls, tool_messages,
                   allowed_tools, filtered>>
    /\ UNCHANGED <<graph_vars, chat_vars, socket_vars, reducer_vars, store_vars>>

\* a variant of _initialize_client that sets _initialized before the fetch
initialize_client_returns_initialized_early(t) ==
    /\ task_pc[t] \in {"get_instance_fetch", "get_tools_fetch"}
    /\ pool_lock' = IF pool_lock = t THEN 0 ELSE pool_lock
    /\ pool_initialized' = TRUE
    /\ \E ok \in BOOLEAN :
         IF ok
         THEN /\ pool_tools_loaded' = TRUE
              /\ all_tools' = server_tools
              /\ tools_by_name' = {server_tools[i] : i \in 1 .. Len(server_tools)}
              /\ pool_healthy' = TRUE
              /\ task_pc' = [task_pc EXCEPT ![t] = "done"]
              /\ UNCHANGED fetch_failures
         ELSE /\ pool_healthy' = FALSE
              /\ fetch_failures' = fetch_failures + 1
              /\ task_pc' = [task_pc EXCEPT ![t] = "raised"]
              /\ UNCHANGED <<pool_tools_loaded, all_tools, tools_by_name>>
    /\ UNCHANGED <<pool_instance, connection_attempts>>
    /\ UNCHANGED <<server_tools, refresh_pc, exec_pc, tool_calls, tool_messages,
                   allowed_tools, filtered>>
    /\ UNCHANGED <<graph_vars, chat_vars, socket_vars, reducer_vars, store_vars>>

\* _initialize_client resumes after await self.client.get_tools()
initialize_client_returns(t) ==
    /\ task_pc[t] \in {"get_instance_fetch", "get_tools_fetch"}
    /\ pool_lock' = IF pool_lock = t THEN 0 ELSE pool_lock
    /\ \E ok \in BOOLEAN :
         IF ok
         THEN /\ pool_tools_loaded' = TRUE
              /\ all_tools' = server_tools
              /\ tools_by_name' = {server_tools[i] : i \in 1 .. Len(server_tools)}
              /\ pool_healthy' = TRUE
              /\ pool_initialized' = TRUE
              /\ task_pc' = [task_pc EXCEPT ![t] = "done"]
              /\ UNCHANGED fetch_failures
         ELSE /\ pool_healthy' = FALSE
              /\ fetch_failures' = fetch_failures + 1
              /\ task_pc' = [task_pc EXCEPT ![t] = "raised"]
              /\ UNCHANGED <<pool_tools_loaded, pool_initialized, all_tools,
                             tools_by_name>>
    /\ UNCHANGED <<pool_instance, connection_attempts>>
    /\ UNCHANGED <<server_tools, refresh_pc, exec_pc, tool_calls, tool_messages,
                   allowed_tools, filtered>>
    /\ UNCHANGED <<graph_vars, chat_vars, socket_vars, reducer_vars, store_vars>>

----------------------------------------------------------------------------
(* Session store and lifecycle: routers/logout.py, routers/patient.py       *)
(*                                                                         *)
(* The chat layer follows one user: the Redis checkpoint of thread         *)
(* user_<id>, the user's longterm_session row, and the WebSocket handler   *)
(* that serves the user's messages.  A session's values are abstracted to  *)
(* the number of durable facts collected (symptoms_collected and the other *)
(* columns of longterm_session), the length of the conversation log,       *)
(* whether user_messages holds an AIMessage (reply), and whether it holds  *)
(* one that follows the newest HumanMessage (fresh).                       *)

EmptyValues == [facts |-> 0, log |-> 0, reply |-> FALSE, fresh |-> FALSE]

NoCheckpoint == [exists |-> FALSE, values |-> EmptyValues]

NoRow == [exists |-> FALSE, facts |-> 0]

NoResponse == [op |-> "none", status |-> 0, state_saved |-> FALSE]

\* get_redis_state_for_user: None when there is no key, and also when the scan
\* or the parse of every key fails (both except clauses swallow the error)
get_redis_state_for_user(read_ok) ==
    IF redis_state.exists /\ read_ok THEN <<redis_state.values>> ELSE <<>>

\* save_state_to_longterm_session: the durable columns are copied, the
\* conversation log is not among them
save_state_to_longterm_session(state) == [exists |-> TRUE, facts |-> state.facts]

load_initial_state_from_db_default_row ==
    <<[facts |-> IF longterm_session.exists THEN longterm_session.facts ELSE 0,
       log |-> 0, reply |-> FALSE, fresh |-> FALSE]>>

\* load_initial_state_from_db: ValueError when the user has no row
load_initial_state_from_db ==
    IF longterm_session.exists
    THEN <<[facts |-> longterm_session.facts, log |-> 0, reply |-> FALSE,
            fresh |-> FALSE]>>
    ELSE <<>>

\* no message of the user is being served
Quiet == ws_pc \in {"receive", "closed"}

\* POST /user/logout
logout ==
    /\ Quiet
    /\ \E read_ok \in BOOLEAN, save_ok \in BOOLEAN, delete_ok \in BOOLEAN :
         LET redis_found == get_redis_state_for_user(read_ok) IN
         IF redis_found # <<>> /\ ~save_ok
         THEN \* save_state_to_longterm_session raises HTTPException(500)
              /\ http_response' = [op |-> "logout", status |-> 500, state_saved |-> FALSE]
              /\ UNCHANGED <<redis_state, longterm_session>>
         ELSE /\ longterm_session' =
                    IF redis_found # <<>>
                    THEN save_state_to_longterm_session(redis_found[1])
                    ELSE longterm_session
              /\ IF delete_ok
                 THEN /\ redis_state' = NoCheckpoint
                      /\ http_response' = [op |-> "logout", status |-> 200,
                                           state_saved |-> redis_found # <<>>]
                 ELSE \* delete_redis_keys_for_user raises HTTPException(500)
                      /\ http_response' = [op |-> "logout", status |-> 500, state_saved |-> FALSE]
                      /\ UNCHANGED redis_state
    /\ UNCHANGED <<ws_pc, client, streaming, sent, run, current_node,
                   llm_call_count, result>>
    /\ UNCHANGED <<graph_vars, pool_vars, cache_vars, socket_vars, reducer_vars, store_vars>>

newchat_archiving ==
    /\ Quiet
    /\ redis_state' = NoCheckpoint
    /\ longterm_session' = IF redis_state.exists
                           THEN save_state_to_longterm_session(redis_state.values)
                           ELSE longterm_session
    /\ http_response' = [op |-> "new-chat", status |-> 200,
                         state_saved |-> redis_state.exists]
    /\ UNCHANGED <<ws_pc, client, streaming, sent, run, current_node,
                   llm_call_count, result>>
    /\ UNCHANGED <<graph_vars, pool_vars, cache_vars, socket_vars, reducer_vars, store_vars>>

\* POST /user/new-chat
newchat ==
    /\ Quiet
    /\ \E read_ok \in BOOLEAN, delete_ok \in BOOLEAN :
         LET redis_found == get_redis_state_for_user(read_ok) IN
         IF delete_ok
         THEN /\ redis_state' = NoCheckpoint
              /\ http_response' = [op |-> "new-chat", status |-> 200,
                                   state_saved |-> redis_found # <<>>]
         ELSE /\ http_response' = [op |-> "new-chat", status |-> 500, state_saved |-> FALSE]
              /\ UNCHANGED redis_state
    /\ UNCHANGED longterm_session
    /\ UNCHANGED <<ws_pc, client, streaming, sent, run, current_node,
                   llm_call_count, result>>
    /\ UNCHANGED <<graph_vars, pool_vars, cache_vars, socket_vars, reducer_vars, store_vars>>

----------------------------------------------------------------------------
(* The graph run as a source of events: what graph.astream_events yields   *)
(* for the graph that build_triage_agent builds.  The chat layer does not  *)
(* follow the contents of the state, so a node may be followed by any      *)
(* target of its outgoing edges.                                           *)

\* build_triage_agent: the targets of each node's outgoing edges
Succ(n) ==
    CASE n = "START" -> {"prescription", "triage", "symptom", "program", "doctor"}
      [] n = "triage" -> {"triage_tools", "symptom", "program", "doctor", "language"}
      [] n = "symptom" -> {"symptom_tools", "program", "doctor", "max_iterations", "urgency"}
      [] n = "program" -> {"program_tools", "symptom", "doctor", "END"}
      [] n = "doctor" -> {"doctor_tools", "symptom", "program", "END"}
      [] n \in ToolNodes -> {OwnerOf(n)}
      [] OTHER -> {"END"}

\* chat-model calls a node makes when it returns normally: the agent nodes make
\* the reasoning call and the structured-decision call; the prescription,
\* language and urgency nodes make one call or return before it
MinModelCalls(n) == IF n \in AgentNodes THEN 2 ELSE 0
MaxModelCalls(n) ==
    IF n \in AgentNodes THEN 2
    ELSE IF n \in {"prescription", "language", "urgency"} THEN 1
    ELSE 0

\* the capability behind the k-th chat-model call of a node
CallKind(n, k) ==
    IF n \in AgentNodes THEN (IF k = 1 THEN "reasoning" ELSE "decision")
    ELSE IF n = "urgency" THEN "decision"
    ELSE "plain"

\* tool invocations of a tool node that are traced (execute_tool_calls)
ToolCalls(n) == IF n \in ToolNodes THEN 0 .. MaxCalls ELSE {0}

\* whether a node that returns writes an AIMessage to user_messages: the
\* symptom, programme and doctor nodes do on every return; the triage node
\* does not when it hands off or requests tools; the prescription node does
\* not when the extraction fails; the other nodes never do
WritesReply(n) ==
    IF n \in {"symptom", "program", "doctor"} THEN {TRUE}
    ELSE IF n \in {"triage", "prescription"} THEN BOOLEAN
    ELSE {FALSE}

\* what a finished node leaves in the state
NodeEffects(n, v) ==
    IF n \in AgentNodes
    THEN {[facts |-> f, log |-> Min(v.log + 1, MaxLog),
           reply |-> v.reply \/ w, fresh |-> v.fresh \/ w] :
            f \in {v.facts, Min(v.facts + 1, MaxFacts)}, w \in WritesReply(n)}
    ELSE IF n = "prescription"
    THEN {[v EXCEPT !.reply = v.reply \/ w, !.fresh = v.fresh \/ w] : w \in WritesReply(n)}
    ELSE IF n \in ToolNodes \cup {"max_iterations"}
    THEN {[v EXCEPT !.log = Min(v.log + 1, MaxLog)]}
    ELSE {v}

\* should_continue_traige after TriageAgent.run: the turn goes on to the
\* language node exactly when triage answered with an AIMessage (no trigger
\* and no tool calls); v is the state the node leaves from r's values
EdgeAgrees(r, m, v) ==
    r.node = "triage" =>
        IF m = "language" THEN v.fresh
        ELSE v.fresh = r.values.fresh /\ v.reply = r.values.reply

NoRun == [status |-> "none", node |-> "START", phase |-> "sched", k |-> 0,
          streamed |-> FALSE, tools_left |-> 0, steps |-> 0, values |-> EmptyValues]

SrcEvent(event, name, call) == [event |-> event, name |-> name, call |-> call]

\* a run that is over: only its outcome and its final values remain
Over(status, v) == [NoRun EXCEPT !.status = status, !.node = "END", !.values = v]

\* the run after node r.node has finished with values v and the edge chose m
AfterNode(r, m, v) ==
    IF m = "END" THEN Over("done", v)
    ELSE IF r.steps + 1 >= RecursionLimit
    THEN [r EXCEPT !.phase = "limit", !.values = v]
    ELSE [r EXCEPT !.node = m, !.phase = "sched", !.steps = r.steps + 1, !.values = v]

\* the next event of the run, the run after it, and whether a checkpoint of
\* the run's values is written with it (the engine saves one per superstep)
SourceSteps(r) ==
    IF r.phase = "sched" /\ r.node = "START"
    THEN {[e |-> SrcEvent("on_chain_start", "LangGraph", "na"),
           r |-> [r EXCEPT !.node = n, !.values.log = Min(r.values.log + 1, MaxLog),
                           !.values.fresh = FALSE],
           commit |-> TRUE] : n \in Succ("START")}
    ELSE IF r.phase = "sched"
    THEN {[e |-> SrcEvent("on_chain_start", r.node, "na"),
           r |-> [r EXCEPT !.phase = "body", !.k = 0, !.streamed = FALSE,
                           !.tools_left = c],
           commit |-> FALSE] : c \in ToolCalls(r.node)}
    ELSE IF r.phase = "tool"
    THEN {[e |-> SrcEvent(ev, "tool", "na"), r |-> [r EXCEPT !.phase = "body"],
           commit |-> FALSE] : ev \in {"on_tool_end", "on_tool_error"}}
    ELSE IF r.phase = "body"
    THEN (IF r.k < MaxModelCalls(r.node)
          THEN {[e |-> SrcEvent("on_chat_model_start", r.node, CallKind(r.node, r.k + 1)),
                 r |-> [r EXCEPT !.k = r.k + 1, !.streamed = FALSE],
                 commit |-> FALSE]}
          ELSE {})
         \cup
         (IF r.k >= 1 /\ ~r.streamed
          THEN {[e |-> SrcEvent("on_chat_model_stream", r.node, CallKind(r.node, r.k)),
                 r |-> [r EXCEPT !.streamed = TRUE],
                 commit |-> FALSE]}
          ELSE {})
         \cup
         (IF r.tools_left > 0
          THEN {[e |-> SrcEvent("on_tool_start", "tool", "na"),
                 r |-> [r EXCEPT !.phase = "tool", !.tools_left = r.tools_left - 1],
                 commit |-> FALSE]}
          ELSE {})
         \cup
         (IF r.k >= MinModelCalls(r.node) /\ r.tools_left = 0
          THEN UNION {{[e |-> SrcEvent("on_chain_end",
                                      IF m = "END" THEN "LangGraph" ELSE r.node, "na"),
                        r |-> AfterNode(r, m, v),
                        commit |-> TRUE] :
                          v \in {w \in NodeEffects(r.node, r.values) : EdgeAgrees(r, m, w)}} :
                      m \in Succ(r.node)}
          ELSE {})
    ELSE {}

\* the run raises: inside a node that lets an exception out (the agent nodes
\* and the language node), or GraphRecursionError at the step limit
CanRaise(r) ==
    \/ r.phase = "limit"
    \/ r.phase = "body" /\ r.node \in AgentNodes \cup {"language"}

----------------------------------------------------------------------------
(* WebSocket handler: main.py chat_socket, run_graph_for_user_streaming,   *)
(* run_graph_for_user                                                      *)

Frame(type, node, detail, src) == [type |-> type, node |-> node, detail |-> detail, src |-> src]

NoResult == [kind |-> "unset", src |-> "na", reply |-> FALSE, fresh |-> FALSE]
ResultNone == [kind |-> "None", src |-> "na", reply |-> FALSE, fresh |-> FALSE]

\* the node names run_graph_for_user_streaming announces
AnnouncedNodes == {"triage", "symptom", "program", "doctor", "prescription",
                   "language", "urgency"}

\* the body of the async for loop: the frames sent for one event and the new
\* values of current_node and llm_call_count_per_node[current_node]
on_event(e) ==
    LET keep == [send |-> <<>>, node |-> current_node, count |-> llm_call_count] IN
    CASE e.event = "on_chain_start" ->
            IF e.name \in AnnouncedNodes
            THEN [send |-> <<Frame("node_start", e.name, "", "na")>>,
                  node |-> e.name, count |-> 0]
            ELSE keep
      [] e.event = "on_chat_model_start" ->
            IF current_node # "None"
            THEN [send |-> IF llm_call_count + 1 = 1
                           THEN <<Frame("thinking_start", current_node, "", e.call)>>
                           ELSE IF llm_call_count + 1 = 2
                           THEN <<Frame("response_start", current_node, "", e.call)>>
                           ELSE <<>>,
                  node |-> current_node, count |-> llm_call_count + 1]
            ELSE keep
      [] e.event = "on_chat_model_stream" ->
            IF current_node # "None" /\ llm_call_count = 1
            THEN [keep EXCEPT !.send = <<Frame("thinking", current_node, "", e.call)>>]
            ELSE keep
      [] e.event = "on_tool_start" ->
            [keep EXCEPT !.send = <<Frame("tool_start", "", "", "na")>>]
      [] e.event = "on_tool_end" ->
            [keep EXCEPT !.send = <<Frame("tool_end", "", "", "na")>>]
      [] OTHER -> keep

\* What the client has received for the inbound message: the type of the first
\* frame, the number of error frames, and the frames since the latest node_start
\* (that frame included; all frames while no node has been announced).
NoneSent == [first |-> "", errors |-> 0, frames |-> <<>>]

\* socket.send_text: the frames reach the client while it is connected; once
\* the client has gone the call raises, or the frames are dropped unnoticed
Delivered(frames) ==
    IF client # "connected" \/ frames = <<>> THEN sent
    ELSE [first |-> IF sent.first = "" THEN frames[1].type ELSE sent.first,
          errors |-> sent.errors
                     + Cardinality({i \in DOMAIN frames : frames[i].type = "error"}),
          frames |-> IF frames[1].type = "node_start" THEN frames
                     ELSE sent.frames \o frames]
SendRaises(frames) == client = "gone" /\ frames # <<>>

ReadBack_from_run(read_ok) ==
    [kind |-> "values", src |-> "stream", reply |-> run.values.reply,
     fresh |-> run.values.fresh]

\* the except branch of run_graph_for_user_streaming, lines 264-271: the state
\* is read back from the checkpointer
ReadBack(read_ok) ==
    IF read_ok /\ redis_state.exists
    THEN [kind |-> "values", src |-> "checkpoint", reply |-> redis_state.values.reply,
          fresh |-> redis_state.values.fresh]
    ELSE ResultNone

\* chat_socket, lines 361-383: the stream_end frame built from the result
stream_end(res) ==
    IF res.kind = "None" THEN Frame("stream_end", "Unknown", "apology", "na")
    ELSE Frame("stream_end", "", IF res.reply THEN "response" ELSE "null", res.src)

ChatInit ==
    /\ redis_state = NoCheckpoint
    /\ longterm_session \in {NoRow, [exists |-> TRUE, facts |-> 0]}
    /\ ws_pc = "receive"
    /\ client = "connected"
    /\ streaming = TRUE
    /\ sent = NoneSent
    /\ run = NoRun
    /\ current_node = "None"
    /\ llm_call_count = 0
    /\ result = NoResult
    /\ http_response = NoResponse

\* the client closes the connection
disconnect ==
    /\ client = "connected"
    /\ ws_pc # "closed"
    /\ client' = "gone"
    /\ UNCHANGED <<redis_state, longterm_session, ws_pc, streaming, sent, run,
                   current_node, llm_call_count, result, http_response>>
    /\ UNCHANGED <<graph_vars, pool_vars, cache_vars, socket_vars, reducer_vars, store_vars>>

\* a client opens /ws/chat: socket.accept() and a new handler
connect ==
    /\ ws_pc = "closed"
    /\ ws_pc' = "receive"
    /\ client' = "connected"
    /\ streaming' = TRUE
    /\ sent' = NoneSent
    /\ run' = NoRun
    /\ current_node' = "None"
    /\ llm_call_count' = 0
    /\ result' = NoResult
    /\ UNCHANGED <<redis_state, longterm_session, http_response>>
    /\ UNCHANGED <<graph_vars, pool_vars, cache_vars, socket_vars, reducer_vars, store_vars>>

\* chat_socket, lines 309-356: one payload is received and parsed
receive_text ==
    /\ ws_pc = "receive"
    /\ run' = NoRun
    /\ current_node' = "None"
    /\ llm_call_count' = 0
    /\ result' = NoResult
    /\ IF client = "gone"
       THEN \* WebSocketDisconnect leaves the loop
            /\ ws_pc' = "closed"
            /\ UNCHANGED <<streaming, sent>>
       ELSE \E user_id \in {"", "7", "seven"}, enable_streaming \in BOOLEAN :
              /\ streaming' = enable_streaming
              /\ CASE user_id = "" ->
                        /\ sent' = [first |-> "error", errors |-> 1,
                                     frames |-> <<Frame("error", "", "user_id required", "na")>>]
                        /\ ws_pc' = "receive"
                   [] user_id = "seven" ->
                        \* int(user_id) raises inside the inner try
                        /\ sent' = [first |-> "error", errors |-> 1,
                                     frames |-> <<Frame("error", "", "raw", "na")>>]
                        /\ ws_pc' = "receive"
                   [] OTHER ->
                        /\ sent' = NoneSent
                        /\ ws_pc' = "load"
    /\ UNCHANGED <<redis_state, longterm_session, client, http_response>>
    /\ UNCHANGED <<graph_vars, pool_vars, cache_vars, socket_vars, reducer_vars, store_vars>>

\* run_graph_for_user_streaming lines 116-158 and run_graph_for_user lines
\* 414-436: the checkpoint is read, the state is seeded when there is none,
\* and the streamed turn is acknowledged
load_or_seed ==
    /\ ws_pc = "load"
    /\ \E read_ok \in BOOLEAN :
         LET state_values == IF ~read_ok THEN <<>>
                             ELSE IF redis_state.exists THEN <<redis_state.values>>
                             ELSE load_initial_state_from_db IN
         IF state_values = <<>>
         THEN /\ result' = ResultNone
              /\ ws_pc' = "respond"
              /\ UNCHANGED <<run, sent>>
         ELSE IF ~streaming
         THEN /\ run' = [NoRun EXCEPT !.status = "running", !.values = state_values[1]]
              /\ ws_pc' = "invoke"
              /\ UNCHANGED <<result, sent>>
         ELSE LET frames == <<Frame("stream_start", "", "", "na")>> IN
              \/ /\ sent' = Delivered(frames)
                 /\ run' = [NoRun EXCEPT !.status = "running", !.values = state_values[1]]
                 /\ ws_pc' = "streaming"
                 /\ UNCHANGED result
              \/ /\ SendRaises(frames)
                 /\ ws_pc' = "closed"
                 /\ UNCHANGED <<run, result, sent>>
    /\ UNCHANGED <<redis_state, longterm_session, client, streaming, current_node,
                   llm_call_count, http_response>>
    /\ UNCHANGED <<graph_vars, pool_vars, cache_vars, socket_vars, reducer_vars, store_vars>>

\* one iteration of async for event in graph.astream_events(...)
astream_events ==
    /\ ws_pc = "streaming"
    /\ run.status = "running"
    /\ \E st \in SourceSteps(run) :
         LET h == on_event(st.e) IN
         /\ redis_state' = IF st.commit THEN [exists |-> TRUE, values |-> st.r.values]
                           ELSE redis_state
         /\ \/ /\ sent' = Delivered(h.send)
               /\ run' = st.r
               /\ IF st.r.status = "done"
                  THEN \* the loop ends and final_result is returned
                       /\ result' = [kind |-> "values", src |-> "stream",
                                     reply |-> st.r.values.reply,
                                     fresh |-> st.r.values.fresh]
                       /\ ws_pc' = "respond"
                       /\ current_node' = "None"
                       /\ llm_call_count' = 0
                  ELSE /\ current_node' = h.node
                       /\ llm_call_count' = h.count
                       /\ UNCHANGED <<result, ws_pc>>
            \/ \* the send raises, the generator is closed and the run with it;
               \* the error frame and chat_socket's error frame raise as well
               /\ SendRaises(h.send)
               /\ run' = Over("cancelled", st.r.values)
               /\ ws_pc' = "closed"
               /\ current_node' = "None"
               /\ llm_call_count' = 0
               /\ UNCHANGED <<sent, result>>
    /\ UNCHANGED <<longterm_session, client, streaming, http_response>>
    /\ UNCHANGED <<graph_vars, pool_vars, cache_vars, socket_vars, reducer_vars, store_vars>>

\* the except branch, lines 258-271: graph execution raised
astream_raises ==
    /\ ws_pc = "streaming"
    /\ run.status = "running"
    /\ CanRaise(run)
    /\ run' = Over("raised", run.values)
    /\ current_node' = "None"
    /\ llm_call_count' = 0
    /\ LET frames == <<Frame("error", "", "raw", "na")>> IN
       \/ /\ sent' = Delivered(frames)
          /\ \E read_ok \in BOOLEAN : result' = ReadBack(read_ok)
          /\ ws_pc' = "respond"
       \/ /\ SendRaises(frames)
          /\ ws_pc' = "closed"
          /\ UNCHANGED <<sent, result>>
    /\ UNCHANGED <<redis_state, longterm_session, client, streaming, http_response>>
    /\ UNCHANGED <<graph_vars, pool_vars, cache_vars, socket_vars, reducer_vars, store_vars>>

\* run_graph_for_user line 438: graph.ainvoke runs the turn without events;
\* when it raises, chat_socket's except branch sends its error frame
ainvoke ==
    /\ ws_pc = "invoke"
    /\ LET input == [run.values EXCEPT !.log = Min(run.values.log + 1, MaxLog),
                                       !.fresh = FALSE] IN
       \/ \E n \in AgentNodes \cup {"prescription"} : \E v \in NodeEffects(n, input) :
            \* n is the node that answers; after triage the language node ends the turn
            /\ EdgeAgrees([node |-> n, values |-> input],
                          IF n = "triage" THEN "language" ELSE "END", v)
            /\ redis_state' = [exists |-> TRUE, values |-> v]
            /\ run' = Over("done", v)
            /\ result' = [kind |-> "values", src |-> "stream", reply |-> v.reply,
                          fresh |-> v.fresh]
            /\ ws_pc' = "respond"
            /\ UNCHANGED sent
       \/ /\ redis_state' = [exists |-> TRUE, values |-> input]
          /\ run' = Over("raised", input)
          /\ LET frames == <<Frame("error", "", "raw", "na")>> IN
             \/ /\ sent' = Delivered(frames)
                /\ ws_pc' = "receive"
             \/ /\ SendRaises(frames)
                /\ ws_pc' = "closed"
                /\ UNCHANGED sent
          /\ UNCHANGED result
    /\ UNCHANGED <<longterm_session, client, streaming, current_node,
                   llm_call_count, http_response>>
    /\ UNCHANGED <<graph_vars, pool_vars, cache_vars, socket_vars, reducer_vars, store_vars>>

\* chat_socket, lines 358-384: the final frame
respond ==
    /\ ws_pc = "respond"
    /\ LET frames == <<stream_end(result)>> IN
       \/ /\ sent' = Delivered(frames)
          /\ ws_pc' = "receive"
       \/ /\ SendRaises(frames)
          /\ ws_pc' = "closed"
          /\ UNCHANGED sent
    /\ UNCHANGED <<redis_state, longterm_session, client, streaming, run,
                   current_node, llm_call_count, result, http_response>>
    /\ UNCHANGED <<graph_vars, pool_vars, cache_vars, socket_vars, reducer_vars, store_vars>>

HandlerStep ==
    \/ load_or_seed
    \/ astream_events
    \/ astream_raises
    \/ ainvoke
    \/ respond

----------------------------------------------------------------------------
(* Connections: main.py chat_socket, one handler per accepted WebSocket     *)
(*                                                                         *)
(* Each accepted connection runs its own chat_socket coroutine.  The       *)
(* thread a message is run on comes from the message (payload user_id),    *)
(* not from the connection, and neither chat_socket nor                    *)
(* run_graph_for_user_streaming takes a lock on it.  The suspension points *)
(* of a handler are receive_text, aget_state, the graph run and the sends. *)

Sockets == 1 .. NumSockets
UserIds == 1 .. NumUsers
NoUser == 0

SocketInit ==
    /\ socket_pc = [k \in Sockets |-> "closed"]
    /\ socket_user = [k \in Sockets |-> NoUser]
    /\ thread_turns = [u \in UserIds |-> 0]
    /\ socket_read = [k \in Sockets |-> 0]

\* await socket.accept()
accept(k) ==
    /\ socket_pc[k] = "closed"
    /\ socket_pc' = [socket_pc EXCEPT ![k] = "receive"]
    /\ UNCHANGED <<socket_user, thread_turns, socket_read>>
    /\ UNCHANGED <<graph_vars, pool_vars, chat_vars, cache_vars, reducer_vars, store_vars>>

\* data = await socket.receive_text() returns a message that names a user
socket_receive(k) ==
    /\ socket_pc[k] = "receive"
    /\ \E u \in UserIds : socket_user' = [socket_user EXCEPT ![k] = u]
    /\ socket_pc' = [socket_pc EXCEPT ![k] = "aget_state"]
    /\ UNCHANGED <<thread_turns, socket_read>>
    /\ UNCHANGED <<graph_vars, pool_vars, chat_vars, cache_vars, reducer_vars, store_vars>>

\* receive_text raises WebSocketDisconnect: the handler returns
socket_disconnect(k) ==
    /\ socket_pc[k] = "receive"
    /\ socket_pc' = [socket_pc EXCEPT ![k] = "closed"]
    /\ UNCHANGED <<socket_user, thread_turns, socket_read>>
    /\ UNCHANGED <<graph_vars, pool_vars, chat_vars, cache_vars, reducer_vars, store_vars>>

\* run_graph_for_user_streaming up to the start of the run: aget_state, the
\* input is built, stream_start is sent, and the run loads the thread's latest
\* checkpoint, from which its channel values are built
run_starts(k) ==
    /\ socket_pc[k] = "aget_state"
    /\ socket_read' = [socket_read EXCEPT ![k] = thread_turns[socket_user[k]]]
    /\ socket_pc' = [socket_pc EXCEPT ![k] = "astream_events"]
    /\ UNCHANGED <<socket_user, thread_turns>>
    /\ UNCHANGED <<graph_vars, pool_vars, chat_vars, cache_vars, reducer_vars, store_vars>>

\* the run ends: its last checkpoint holds the values it loaded plus this
\* turn's updates, and becomes the thread's latest checkpoint
run_ends(k) ==
    /\ socket_pc[k] = "astream_events"
    /\ thread_turns' = [thread_turns EXCEPT
                          ![socket_user[k]] = Min(socket_read[k] + 1, MaxTurns)]
    /\ socket_pc' = [socket_pc EXCEPT ![k] = "send"]
    /\ UNCHANGED <<socket_user, socket_read>>
    /\ UNCHANGED <<graph_vars, pool_vars, chat_vars, cache_vars, reducer_vars, store_vars>>

\* await socket.send_text(stream_end); the loop goes back to receive_text
socket_send(k) ==
    /\ socket_pc[k] = "send"
    /\ socket_pc' = [socket_pc EXCEPT ![k] = "receive"]
    /\ socket_user' = [socket_user EXCEPT ![k] = NoUser]
    /\ socket_read' = [socket_read EXCEPT ![k] = 0]
    /\ UNCHANGED thread_turns
    /\ UNCHANGED <<graph_vars, pool_vars, chat_vars, cache_vars, reducer_vars, store_vars>>

\* a handler is serving a message: between receive_text and the final frame
TurnInFlight(k) == socket_pc[k] \in {"aget_state", "astream_events", "send"}

----------------------------------------------------------------------------
(* Channel reducers: core/langgraph/utils/state.py                         *)
(*                                                                         *)
(* A Python str is a sequence of one-character strings, so that strip,     *)
(* lower and the substring test are computed as Python computes them.      *)
(* None is a value that is no such sequence.                               *)

None == <<"None">>

\* str.lower(), for the upper-case letters of the modelled inputs
lower(s) ==
    LET LowerOf == ("A" :> "a") @@ ("C" :> "c") @@ ("F" :> "f") @@ ("N" :> "n") IN
    [i \in 1 .. Len(s) |-> IF s[i] \in DOMAIN LowerOf THEN LowerOf[s[i]] ELSE s[i]]

RECURSIVE lstrip(_)
lstrip(s) == IF s = <<>> THEN s ELSE IF Head(s) = " " THEN lstrip(Tail(s)) ELSE s

RECURSIVE rstrip(_)
rstrip(s) ==
    IF s = <<>> THEN s
    ELSE IF s[Len(s)] = " " THEN rstrip(SubSeq(s, 1, Len(s) - 1)) ELSE s

\* str.strip()
strip(s) == rstrip(lstrip(s))

\* needle in hay, for two str
Contains(hay, needle) ==
    \E i \in 0 .. Len(hay) : i + Len(needle) <= Len(hay)
                             /\ SubSeq(hay, i + 1, i + Len(needle)) = needle

\* the strings the modelled inputs are written with
Text ==
    [fever |-> <<"f", "e", "v", "e", "r">>,
     Fever_padded |-> <<" ", "F", "e", "v", "e", "r", " ">>,
     cough |-> <<"c", "o", "u", "g", "h">>,
     none |-> <<"n", "o", "n", "e">>,
     mild |-> <<"m", "i", "l", "d">>,
     high |-> <<"h", "i", "g", "h">>,
     blank |-> <<" ">>,
     two_days |-> <<"2", "d">>,
     chest |-> <<"c", "h", "e", "s", "t">>,
     spiked_at_night |-> <<"s", "p", "i", "k", "e", "d", " ", "a", "t", " ",
                           "n", "i", "g", "h", "t">>,
     also_chills |-> <<"a", "l", "s", "o", " ", "c", "h", "i", "l", "l", "s">>,
     Night |-> <<"N", "i", "g", "h", "t">>,
     a |-> <<"a">>,
     b |-> <<"b">>,
     b_padded |-> <<" ", "b">>,
     c |-> <<"c">>]

\* _normalize_val
normalize_val(v) ==
    IF v = None THEN None
    ELSE IF strip(v) = <<>> \/ lower(strip(v)) = Text.none THEN None
    ELSE strip(v)

Symptom(sym, sev, dur, loc, add) ==
    [symptom |-> sym, severity |-> sev, duration |-> dur, location |-> loc,
     additional_details |-> add]

\* a variant of the key that keeps the case of the name
KeyOf_case_sensitive(sym) == strip(sym)

\* key = str(sym_raw).strip().lower()
KeyOf(sym) == lower(strip(sym))

\* merge_symptoms, the else branch of upsert: the entry cur is updated from
\* the normalised values of source
SmartMerge(cur, sev, dur, loc, add) ==
    [symptom |-> cur.symptom,
     severity |-> IF sev # None THEN sev ELSE cur.severity,
     duration |-> IF dur # None THEN dur ELSE cur.duration,
     location |-> IF loc # None THEN loc ELSE cur.location,
     additional_details |->
        IF add = None THEN cur.additional_details
        ELSE IF cur.additional_details # None
                /\ ~Contains(lower(cur.additional_details), lower(add))
             THEN cur.additional_details \o <<";", " ">> \o add
        ELSE IF cur.additional_details = None THEN add
        ELSE cur.additional_details]

\* a variant of upsert that replaces a matching entry by the incoming one
upsert_replacing(merged, source) ==
    IF source.symptom = None \/ source.symptom = <<>> THEN merged
    ELSE IF KeyOf(source.symptom) = <<>> \/ KeyOf(source.symptom) = Text.none THEN merged
    ELSE LET entry == Symptom(source.symptom,
                              normalize_val(source.severity),
                              normalize_val(source.duration),
                              normalize_val(source.location),
                              normalize_val(source.additional_details)) IN
         IF \A i \in 1 .. Len(merged) : KeyOf(merged[i].symptom) # KeyOf(source.symptom)
         THEN Append(merged, entry)
         ELSE [i \in 1 .. Len(merged) |->
                 IF KeyOf(merged[i].symptom) = KeyOf(source.symptom)
                 THEN [entry EXCEPT !.symptom = merged[i].symptom]
                 ELSE merged[i]]

\* merge_symptoms, upsert: merged is [merged_map[k] for k in order] so far
upsert(merged, source) ==
    IF source.symptom = None \/ source.symptom = <<>> THEN merged
    ELSE IF KeyOf(source.symptom) = <<>> \/ KeyOf(source.symptom) = Text.none THEN merged
    ELSE LET sev == normalize_val(source.severity)
             dur == normalize_val(source.duration)
             loc == normalize_val(source.location)
             add == normalize_val(source.additional_details) IN
         IF \A i \in 1 .. Len(merged) : KeyOf(merged[i].symptom) # KeyOf(source.symptom)
         THEN Append(merged, Symptom(source.symptom, sev, dur, loc, add))
         ELSE [i \in 1 .. Len(merged) |->
                 IF KeyOf(merged[i].symptom) = KeyOf(source.symptom)
                 THEN SmartMerge(merged[i], sev, dur, loc, add)
                 ELSE merged[i]]

\* for e in existing: upsert(e); for inc in incoming: upsert(inc)
RECURSIVE UpsertAll(_, _)
UpsertAll(merged, sources) ==
    IF sources = <<>> THEN merged
    ELSE UpsertAll(upsert(merged, Head(sources)), Tail(sources))

merge_symptoms(existing, incoming) == UpsertAll(<<>>, existing \o incoming)

\* deduplicate_merge, its loop over combined
RECURSIVE Deduplicated(_, _)
Deduplicated(res, combined) ==
    IF combined = <<>> THEN res
    ELSE LET clean_item == strip(Head(combined)) IN
         Deduplicated(IF clean_item # <<>> /\ \A i \in 1 .. Len(res) : res[i] # clean_item
                      THEN Append(res, clean_item) ELSE res,
                      Tail(combined))

\* a variant of the loop that compares the items as they are
RECURSIVE DeduplicatedExact(_, _)
DeduplicatedExact(res, combined) ==
    IF combined = <<>> THEN res
    ELSE DeduplicatedExact(IF Head(combined) # <<>>
                              /\ \A i \in 1 .. Len(res) : res[i] # Head(combined)
                           THEN Append(res, Head(combined)) ELSE res,
                           Tail(combined))

\* a variant that keeps the new list only, as a last-value channel would
deduplicate_merge_replacing(current, new) == Deduplicated(<<>>, new)

deduplicate_merge_exact(current, new) == DeduplicatedExact(<<>>, current \o new)

deduplicate_merge(current, new) == Deduplicated(<<>>, current \o new)

\* a variant that keeps the newest list only
operator_add_latest(a, b) == b

\* operator.add on two lists
operator_add(a, b) == a \o b

\* The channels of MedicalAgentState that stand for the four merge policies:
\* messages, user_messages and doctor_collected (operator.add),
\* symptoms_collected (merge_symptoms), shared_facts and red_flags
\* (deduplicate_merge), detected_urgency and urgency_checked (no reducer: the
\* last value written).
EmptyChannels == [messages |-> <<>>, user_messages |-> <<>>,
                  symptoms_collected |-> <<>>, shared_facts |-> <<>>,
                  detected_urgency |-> "unset",
                  doctor_collected |-> <<>>, red_flags |-> <<>>,
                  urgency_checked |-> FALSE]

\* one channel write of a delta: the engine applies each key of a delta to
\* its own channel, a key that is absent writes nothing
ApplyUpdate(c, u) ==
    CASE u.key = "messages" ->
            [c EXCEPT !.messages = operator_add(c.messages, u.value)]
      [] u.key = "user_messages" ->
            [c EXCEPT !.user_messages = operator_add(c.user_messages, u.value)]
      [] u.key = "symptoms_collected" ->
            [c EXCEPT !.symptoms_collected = merge_symptoms(c.symptoms_collected, u.value)]
      [] u.key = "shared_facts" ->
            [c EXCEPT !.shared_facts = deduplicate_merge(c.shared_facts, u.value)]
      [] u.key = "detected_urgency" ->
            [c EXCEPT !.detected_urgency = u.value[1]]
      [] u.key = "doctor_collected" ->
            [c EXCEPT !.doctor_collected = operator_add(c.doctor_collected, u.value)]
      [] u.key = "red_flags" ->
            [c EXCEPT !.red_flags = deduplicate_merge(c.red_flags, u.value)]
      [] u.key = "urgency_checked" ->
            [c EXCEPT !.urgency_checked = u.value[1]]
      [] OTHER -> c

\* symptoms_collected entries a structured decision or a longterm_session row holds
IncomingSymptoms ==
    {Symptom(Text.fever, Text.mild, None, None, None),
     Symptom(Text.fever, Text.high, None, None, Text.spiked_at_night),
     Symptom(Text.fever, None, None, None, Text.also_chills),
     Symptom(Text.Fever_padded, Text.blank, None, None, Text.Night),
     Symptom(Text.cough, Text.none, Text.two_days, Text.chest, None),
     Symptom(Text.none, Text.high, None, None, None),
     Symptom(None, Text.mild, None, None, None)}

IncomingFacts == {<<>>, <<Text.a, Text.b>>, <<Text.b, Text.c>>,
                  <<Text.b_padded, Text.c, Text.c>>, <<Text.blank, Text.a>>}

Write(k, v) == [key |-> k, value |-> v]

\* the lists of the model stay within MaxEntries entries
Bounded(c) ==
    /\ Len(c.messages) <= MaxEntries
    /\ Len(c.user_messages) <= MaxEntries
    /\ Len(c.doctor_collected) <= MaxEntries

ReducerInit == channels = EmptyChannels

\* main.py run_graph_for_user_streaming: the input {**state_values,
\* "user_messages": [HumanMessage], "messages": [HumanMessage]} is written to
\* the channels; state_values is the checkpoint's values or, without a
\* checkpoint, the state built from the longterm_session row
graph_input ==
    /\ \E sy \in {<<>>} \cup {<<e>> : e \in IncomingSymptoms}, f \in IncomingFacts :
         LET state_values ==
                 IF channels = EmptyChannels
                 THEN [EmptyChannels EXCEPT !.symptoms_collected = sy,
                                            !.shared_facts = f,
                                            !.detected_urgency = "Medium"]
                 ELSE channels
             input == [state_values EXCEPT !.user_messages = <<"human">>,
                                           !.messages = <<"human">>]
             written ==
                 [messages |-> operator_add(channels.messages, input.messages),
                  user_messages |-> operator_add(channels.user_messages,
                                                 input.user_messages),
                  symptoms_collected |-> merge_symptoms(channels.symptoms_collected,
                                                        input.symptoms_collected),
                  shared_facts |-> deduplicate_merge(channels.shared_facts,
                                                     input.shared_facts),
                  detected_urgency |-> input.detected_urgency,
                  doctor_collected |-> operator_add(channels.doctor_collected,
                                                    input.doctor_collected),
                  red_flags |-> deduplicate_merge(channels.red_flags, input.red_flags),
                  urgency_checked |-> input.urgency_checked] IN
         \* the row is read only when there is no checkpoint
         /\ channels # EmptyChannels => (sy = <<>> /\ f = <<>>)
         /\ Bounded(written)
         /\ channels' = written
    /\ UNCHANGED <<graph_vars, pool_vars, chat_vars, cache_vars, socket_vars, store_vars>>

\* the engine writes one key of a node's delta to its channel
WriteChannel(u) ==
    LET written == ApplyUpdate(channels, u) IN
    /\ Bounded(written)
    /\ channels' = written

\* a node of a running turn returns a delta; its keys are written one by one,
\* each to its own channel
node_update ==
    /\ channels # EmptyChannels
    /\ \/ \E v \in {<<>>, <<"ai">>, <<"tool">>} : WriteChannel(Write("messages", v))
       \/ \E v \in {<<>>, <<"ai">>} : WriteChannel(Write("user_messages", v))
       \/ \E v \in {<<>>} \cup {<<e>> : e \in IncomingSymptoms} :
             WriteChannel(Write("symptoms_collected", v))
       \/ \E v \in IncomingFacts : WriteChannel(Write("shared_facts", v))
       \/ \E v \in {"Medium", "High"} : WriteChannel(Write("detected_urgency", <<v>>))
    /\ UNCHANGED <<graph_vars, pool_vars, chat_vars, cache_vars, socket_vars, store_vars>>

\* routers/logout.py logout and newchat: the thread's keys are deleted
purge ==
    /\ channels # EmptyChannels
    /\ channels' = EmptyChannels
    /\ UNCHANGED <<graph_vars, pool_vars, chat_vars, cache_vars, socket_vars, store_vars>>

\* urgency_level values of UrgencyResponse
UrgencyLevels == {"Emergency", "High", "Medium", "Low"}

\* a variant of UrgencyDetectorNode.run that does not read urgency_checked
UrgencyDetectorNode_run_rechecking(c, response) ==
    IF c.symptoms_collected = <<>> /\ c.red_flags = <<>>
    THEN [detected_urgency |-> <<"Low">>, urgency_checked |-> <<TRUE>>]
    ELSE [detected_urgency |-> <<IF response \in UrgencyLevels THEN response
                                 ELSE IF c.red_flags # <<>> THEN "High" ELSE "Medium">>,
          urgency_checked |-> <<TRUE>>]

\* UrgencyDetectorNode.run: the delta it returns, a key that is absent is <<>>.
\* response is the urgency_level of the structured answer, "raise" when the
\* call raises and "none" when the answer has no urgency_level
UrgencyDetectorNode_run(c, response) ==
    IF c.urgency_checked
    THEN [detected_urgency |-> <<>>, urgency_checked |-> <<>>]
    ELSE IF c.symptoms_collected = <<>> /\ c.red_flags = <<>>
    THEN [detected_urgency |-> <<"Low">>, urgency_checked |-> <<TRUE>>]
    ELSE [detected_urgency |-> <<IF response \in UrgencyLevels THEN response
                                 ELSE IF c.red_flags # <<>> THEN "High" ELSE "Medium">>,
          urgency_checked |-> <<TRUE>>]

\* the urgency node runs (after the symptom node, on the edge "__end__") and
\* the keys of its delta are written
urgency_detector ==
    /\ channels # EmptyChannels
    /\ \E response \in UrgencyLevels \cup {"raise", "none"} :
         LET d == UrgencyDetectorNode_run(channels, response)
             c1 == IF d.detected_urgency = <<>> THEN channels
                   ELSE ApplyUpdate(channels, Write("detected_urgency", d.detected_urgency)) IN
         channels' = IF d.urgency_checked = <<>> THEN c1
                     ELSE ApplyUpdate(c1, Write("urgency_checked", d.urgency_checked))
    /\ UNCHANGED <<graph_vars, pool_vars, chat_vars, cache_vars, socket_vars, store_vars>>

\* SymptomAgentNode.run, lines 384-405: the symptoms and red flags of its
\* decision are written
symptom_finds ==
    /\ channels # EmptyChannels
    /\ \E sy \in {<<>>, <<Symptom(Text.fever, Text.mild, None, None, None)>>},
          rf \in {<<>>, <<Text.chest>>} :
         channels' = ApplyUpdate(ApplyUpdate(channels, Write("symptoms_collected", sy)),
                                 Write("red_flags", rf))
    /\ UNCHANGED <<graph_vars, pool_vars, chat_vars, cache_vars, socket_vars, store_vars>>

\* DoctorAgentNode.run, lines 214-219: the doctors of its decision are written
\* (an empty list when it names none)
doctor_finds ==
    /\ channels # EmptyChannels
    /\ \E found \in {<<>>, <<"doctor">>} : WriteChannel(Write("doctor_collected", found))
    /\ UNCHANGED <<graph_vars, pool_vars, chat_vars, cache_vars, socket_vars, store_vars>>

----------------------------------------------------------------------------
(* The keys of several users: routers/logout.py                            *)
(*                                                                         *)
(* The checkpointer keeps the checkpoints of thread user_<id> under keys   *)
(* that hold the thread id between colons (checkpoint:user_<id>:...).      *)
(* logout.py finds a user's keys with the glob pattern *user_<id>*.  A     *)
(* state carries the user_name it was seeded with, which tells whose state *)
(* it is, and the number of durable facts collected.                       *)

StoreUsers == {1, 2, 10}

\* str(user_id) of an f-string: the decimal digits
RECURSIVE str(_)
str(n) ==
    LET digit == <<"0", "1", "2", "3", "4", "5", "6", "7", "8", "9">>[(n % 10) + 1] IN
    IF n < 10 THEN <<digit>> ELSE Append(str(n \div 10), digit)

\* the key of the latest checkpoint of thread f"user_{user_id}"
KeyFor(user_id) ==
    <<"c", "h", "e", "c", "k", "p", "o", "i", "n", "t", ":", "u", "s", "e", "r", "_">>
    \o str(user_id) \o <<":">>

\* a variant of the pattern that ends the id at the colon
Matches_to_colon(key, user_id) ==
    Contains(key, <<"u", "s", "e", "r", "_">> \o str(user_id) \o <<":">>)

\* scan_iter(match=f"*user_{user_id}*"): the key holds user_<id> somewhere
Matches(key, user_id) == Contains(key, <<"u", "s", "e", "r", "_">> \o str(user_id))

\* the users whose key the scan for user_id returns
Scanned(cps, user_id) ==
    {u \in StoreUsers : cps[u].exists /\ Matches(KeyFor(u), user_id)}

\* bytes are compared by their code; the keys differ in digits and colons only
RECURSIVE Less(_, _)
Less(a, b) ==
    LET ord == [ch \in {"0", "1", "2", "3", "4", "5", "6", "7", "8", "9", ":"} |->
                  CASE ch = "0" -> 48 [] ch = "1" -> 49 [] ch = "2" -> 50
                    [] ch = "3" -> 51 [] ch = "4" -> 52 [] ch = "5" -> 53
                    [] ch = "6" -> 54 [] ch = "7" -> 55 [] ch = "8" -> 56
                    [] ch = "9" -> 57 [] ch = ":" -> 58] IN
    IF a = <<>> THEN b # <<>>
    ELSE IF b = <<>> THEN FALSE
    ELSE IF Head(a) = Head(b) THEN Less(Tail(a), Tail(b))
    ELSE ord[Head(a)] < ord[Head(b)]

NoKeys == [exists |-> FALSE, user_name |-> 0, facts |-> 0]

\* get_redis_state_for_user: keys.sort(reverse=True), the state of the first
\* key that holds one; None (here <<>>) when the scan returns no key
redis_state_for(cps, user_id) ==
    LET found == Scanned(cps, user_id) IN
    IF found = {} THEN <<>>
    ELSE LET first == CHOOSE u \in found :
                         \A v \in found \ {u} : Less(KeyFor(v), KeyFor(u)) IN
         <<[user_name |-> cps[first].user_name, facts |-> cps[first].facts]>>

\* delete_redis_keys_for_user: redis_client.delete(*keys) of the scanned keys
keys_deleted(cps, user_id) ==
    [u \in StoreUsers |-> IF u \in Scanned(cps, user_id) THEN NoKeys ELSE cps[u]]

\* save_state_to_longterm_session(user_id, state): the row of user_id gets the
\* columns of state
row_saved(state) == [user_name |-> state.user_name, facts |-> state.facts]

StoreInit ==
    /\ checkpoints = [u \in StoreUsers |-> NoKeys]
    /\ rows = [u \in StoreUsers |-> [user_name |-> u, facts |-> 0]]

\* a turn of user u ends: its state, loaded from the thread's checkpoint or
\* seeded from the user's row, is written with the facts the turn collected
checkpoint_written(u) ==
    /\ LET state_values == IF checkpoints[u].exists
                           THEN [user_name |-> checkpoints[u].user_name,
                                 facts |-> checkpoints[u].facts]
                           ELSE rows[u] IN
       \E f \in {state_values.facts, Min(state_values.facts + 1, MaxFacts)} :
          checkpoints' = [checkpoints EXCEPT
                            ![u] = [exists |-> TRUE,
                                    user_name |-> state_values.user_name, facts |-> f]]
    /\ UNCHANGED rows
    /\ UNCHANGED <<graph_vars, pool_vars, chat_vars, cache_vars, socket_vars, reducer_vars>>

\* POST /user/logout of user_id, when the save and the delete succeed
logout_user(user_id) ==
    /\ LET redis_found == redis_state_for(checkpoints, user_id) IN
       rows' = IF redis_found # <<>>
               THEN [rows EXCEPT ![user_id] = row_saved(redis_found[1])]
               ELSE rows
    /\ checkpoints' = keys_deleted(checkpoints, user_id)
    /\ UNCHANGED <<graph_vars, pool_vars, chat_vars, cache_vars, socket_vars, reducer_vars>>

\* POST /user/new-chat of user_id, when the delete succeeds
newchat_user(user_id) ==
    /\ checkpoints' = keys_deleted(checkpoints, user_id)
    /\ UNCHANGED rows
    /\ UNCHANGED <<graph_vars, pool_vars, chat_vars, cache_vars, socket_vars, reducer_vars>>

----------------------------------------------------------------------------
(* The tool cache and its users: tool_manager.py get_tools,                *)
(* execute_tool_calls, refresh_tools                                       *)
(*                                                                         *)
(* The cache is followed on an initialized pool (the test of _initialized  *)
(* that opens get_tools and execute_tool_calls is get_tools(t) above).     *)
(* One task runs execute_tool_calls, one runs refresh_tools, get_tools has *)
(* no suspension point of its own, and the server may change the tools it  *)
(* lists.  tool.ainvoke and client.get_tools are the suspension points.    *)

\* names a tool call can carry: two tools of the server and one it never lists
ToolNames == {"Doctor_KB_Smart_Query", "Find_Nearest_Medical_Facility", "Unlisted_Tool"}

\* lists of tools the MCP server answers client.get_tools() with
ServerLists == {<<"Doctor_KB_Smart_Query", "Find_Nearest_Medical_Facility">>,
                <<"Find_Nearest_Medical_Facility">>,
                <<"Doctor_KB_Smart_Query">>}

InitialTools == <<"Doctor_KB_Smart_Query", "Find_Nearest_Medical_Facility">>

Elements(s) == {s[i] : i \in 1 .. Len(s)}

\* allowed_tools arguments: None, the agents' lists, lists naming a tool the
\* server does not list
AllowLists == {<<>>,
               <<"Doctor_KB_Smart_Query">>,
               <<"Find_Nearest_Medical_Facility", "Doctor_KB_Smart_Query">>,
               <<"Doctor_KB_Smart_Query", "Unlisted_Tool">>,
               <<"Unlisted_Tool">>}

\* a variant of get_tools that gives up the filter when a name is missing
get_tools_all_or_nothing(all, by_name, allowed) ==
    IF allowed = None THEN all
    ELSE IF Elements(allowed) \subseteq by_name THEN allowed
    ELSE <<>>

\* get_tools from its test of allowed_tools on: the whole list, or
\* [self.tools_by_name[name] for name in allowed_tools if name in self.tools_by_name]
get_tools_returns(all, by_name, allowed) ==
    IF allowed = None THEN all
    ELSE SelectSeq(allowed, LAMBDA name : name \in by_name)

\* the tool_calls arguments: up to MaxBatch calls, each with a name and an id
\* of its own (the ids of a message's calls differ; here they count down)
Batches ==
    {<<>>} \cup
    UNION {{[i \in 1 .. n |-> [name |-> names[i], id |-> n + 1 - i]] :
              names \in [1 .. n -> ToolNames]} : n \in 1 .. MaxBatch}

\* one pass of the loop of execute_tool_calls: the lookup, tool.ainvoke and
\* the ToolMessage appended for them (its status defaults to success)
ToolMessageFor(tool_call, by_name, raises) ==
    [content |-> IF tool_call.name \notin by_name THEN "not found"
                 ELSE IF raises THEN "Error executing" ELSE "str(result)",
     tool_call_id |-> tool_call.id,
     name |-> tool_call.name,
     status |-> IF tool_call.name \notin by_name \/ raises THEN "error" ELSE "success"]

\* a variant of the loop that ends the batch at the first error message
LoopOver_stops_at_error(calls, msgs) ==
    IF Len(msgs) = Len(calls) \/ (msgs # <<>> /\ msgs[Len(msgs)].status = "error")
    THEN "returned" ELSE "loop"

\* for tool_call in tool_calls: the loop ends after the last call
LoopOver(calls, msgs) == IF Len(msgs) = Len(calls) THEN "returned" ELSE "loop"

\* a variant of refresh_tools that updates the name map in place
RefreshedNames_updating(by_name, fetched) == by_name \cup Elements(fetched)

\* refresh_tools: self.tools_by_name = {tool.name: tool for tool in self._all_tools}
RefreshedNames(by_name, fetched) == Elements(fetched)

\* before the pool exists
CacheInit ==
    /\ server_tools = InitialTools
    /\ all_tools = <<>>
    /\ tools_by_name = {}
    /\ refresh_pc = "idle"
    /\ exec_pc = "idle"
    /\ tool_calls = <<>>
    /\ tool_messages = <<>>
    /\ allowed_tools = None
    /\ filtered = <<>>

\* the pool after the first get_instance returned: initialized, the cache
\* holds the list fetched from the server
InitializedPool ==
    /\ pool_instance = "pool"
    /\ pool_initialized = TRUE
    /\ pool_healthy = TRUE
    /\ pool_tools_loaded = TRUE
    /\ pool_lock = 0
    /\ task_pc = [t \in Tasks |-> "done"]
    /\ connection_attempts = 1
    /\ fetch_failures = 0
    /\ server_tools = InitialTools
    /\ all_tools = InitialTools
    /\ tools_by_name = Elements(InitialTools)
    /\ refresh_pc = "idle"
    /\ exec_pc = "idle"
    /\ tool_calls = <<>>
    /\ tool_messages = <<>>
    /\ allowed_tools = None
    /\ filtered = <<>>

\* the MCP server starts to list other tools
server_changes ==
    /\ \E l \in ServerLists \ {server_tools} : server_tools' = l
    /\ UNCHANGED <<all_tools, tools_by_name, refresh_pc, exec_pc, tool_calls,
                   tool_messages, allowed_tools, filtered>>
    /\ UNCHANGED <<graph_vars, pool_vars, chat_vars, socket_vars, reducer_vars, store_vars>>

\* await pool.get_tools(allowed_tools) on the initialized pool
get_tools_filters ==
    /\ pool_initialized
    /\ \E allowed \in AllowLists \cup {None} :
         /\ allowed_tools' = allowed
         /\ filtered' = get_tools_returns(all_tools, tools_by_name, allowed)
    /\ UNCHANGED <<server_tools, all_tools, tools_by_name, refresh_pc, exec_pc,
                   tool_calls, tool_messages>>
    /\ UNCHANGED <<graph_vars, pool_vars, chat_vars, socket_vars, reducer_vars, store_vars>>

\* execute_tool_calls is called: tool_messages = []
execute_tool_calls ==
    /\ pool_initialized
    /\ exec_pc \in {"idle", "returned"}
    /\ \E calls \in Batches :
         /\ tool_calls' = calls
         /\ exec_pc' = LoopOver(calls, <<>>)
    /\ tool_messages' = <<>>
    /\ UNCHANGED <<server_tools, all_tools, tools_by_name, refresh_pc,
                   allowed_tools, filtered>>
    /\ UNCHANGED <<graph_vars, pool_vars, chat_vars, socket_vars, reducer_vars, store_vars>>

\* one pass of the loop: the tool is looked up, invoked, and its message appended
execute_next_call ==
    /\ exec_pc = "loop"
    /\ \E raises \in BOOLEAN :
         tool_messages' = Append(tool_messages,
                                 ToolMessageFor(tool_calls[Len(tool_messages) + 1],
                                                tools_by_name, raises))
    /\ exec_pc' = LoopOver(tool_calls, tool_messages')
    /\ UNCHANGED <<server_tools, all_tools, tools_by_name, refresh_pc, tool_calls,
                   allowed_tools, filtered>>
    /\ UNCHANGED <<graph_vars, pool_vars, chat_vars, socket_vars, reducer_vars, store_vars>>

\* refresh_tools up to await self.client.get_tools()
refresh_tools ==
    /\ pool_initialized
    /\ refresh_pc \in {"idle", "raised"}
    /\ refresh_pc' = "fetch"
    /\ UNCHANGED <<server_tools, all_tools, tools_by_name, exec_pc, tool_calls,
                   tool_messages, allowed_tools, filtered>>
    /\ UNCHANGED <<graph_vars, pool_vars, chat_vars, socket_vars, reducer_vars, store_vars>>

\* the fetch of refresh_tools returns the server's list, or raises
refresh_tools_returns ==
    /\ refresh_pc = "fetch"
    /\ \E ok \in BOOLEAN :
         IF ok
         THEN /\ all_tools' = server_tools
              /\ tools_by_name' = RefreshedNames(tools_by_name, server_tools)
              /\ refresh_pc' = "idle"
         ELSE /\ refresh_pc' = "raised"
              /\ UNCHANGED <<all_tools, tools_by_name>>
    /\ UNCHANGED <<server_tools, exec_pc, tool_calls, tool_messages,
                   allowed_tools, filtered>>
    /\ UNCHANGED <<graph_vars, pool_vars, chat_vars, socket_vars, reducer_vars, store_vars>>

----------------------------------------------------------------------------
(* Specifications *)

vars == <<graph_vars, pool_vars, chat_vars, cache_vars, socket_vars, reducer_vars, store_vars>>

\* the graph and the pool are followed for a user who has a longterm_session row
Init ==
    /\ GraphInit /\ PoolInit /\ ChatInit /\ longterm_session.exists
    /\ CacheInit /\ SocketInit /\ ReducerInit /\ StoreInit

Next ==
    \/ NewMessage
    \/ TurnStep
    \/ delete_redis_keys_for_user

Spec == Init /\ [][Next]_vars

\* the graph engine runs the next node whenever there is one
FairSpec == Spec /\ WF_vars(TurnStep)

PoolNext ==
    \E t \in Tasks :
        \/ get_instance(t)
        \/ initialize_client_returns(t)

PoolSpec == Init /\ [][PoolNext]_vars

\* the start router applied to every state a checkpoint can hold; a value of
\* current_agent that no node writes stands for the unrecognised ones
UnknownAgent == "nurse_agent"

RouterInit ==
    /\ messages \in {<<>>} \cup {<<m>> : m \in {HumanMessage(TRUE), HumanMessage(FALSE),
                                               AIMessage(0), ToolMessage("ok")}}
    /\ tool_call_count \in {0, ToolCountCap}
    /\ error_count \in {0, ErrCountCap}
    /\ current_agent \in AgentNames \cup {Default, UnknownAgent}
    /\ prescription_processed \in BOOLEAN
    /\ pc = "idle"
    /\ prev = "none"
    /\ llm = NoCalls
    /\ delta = EmptyDelta
    /\ tool_requesters = {}
    /\ PoolInit
    /\ ChatInit
    /\ longterm_session.exists
    /\ CacheInit /\ SocketInit /\ ReducerInit /\ StoreInit

RouterNext == NewMessage

RouterSpec == RouterInit /\ [][RouterNext]_vars

ChatNext ==
    \/ connect
    \/ disconnect
    \/ receive_text
    \/ HandlerStep
    \/ logout
    \/ newchat

\* the chat layer is followed for users with and without a longterm_session row
SessionInit ==
    /\ GraphInit /\ PoolInit /\ ChatInit
    /\ CacheInit /\ SocketInit /\ ReducerInit /\ StoreInit

ChatSpec == SessionInit /\ [][ChatNext]_vars

\* the event loop runs the handler whenever it can take a step
FairChatSpec == ChatSpec /\ WF_vars(HandlerStep)

\* the handlers of the open connections, interleaved at their suspension points
SocketsNext ==
    \E k \in Sockets :
        \/ accept(k)
        \/ socket_receive(k)
        \/ socket_disconnect(k)
        \/ run_starts(k)
        \/ run_ends(k)
        \/ socket_send(k)

SocketsSpec == Init /\ [][SocketsNext]_vars

\* the channel values of one thread under the writes of its turns
ReducerNext ==
    \/ graph_input
    \/ node_update
    \/ purge

ReducerSpec == Init /\ [][ReducerNext]_vars

\* one thread over its turns: the input of each turn and the nodes that write
\* the urgency fields and the doctor list
ThreadNext ==
    \/ graph_input
    \/ symptom_finds
    \/ doctor_finds
    \/ urgency_detector
    \/ purge

ThreadSpec == Init /\ [][ThreadNext]_vars

\* the checkpoints and rows of several users under turns, logout and new-chat
StoreNext ==
    \E u \in StoreUsers :
        \/ checkpoint_written(u)
        \/ logout_user(u)
        \/ newchat_user(u)

StoreSpec == Init /\ [][StoreNext]_vars

\* the users of the tool cache of an initialized pool
CacheNext ==
    \/ server_changes
    \/ get_tools_filters
    \/ execute_tool_calls
    \/ execute_next_call
    \/ refresh_tools
    \/ refresh_tools_returns

CacheSpecInit ==
    /\ GraphInit /\ ChatInit /\ longterm_session.exists
    /\ InitializedPool /\ SocketInit /\ ReducerInit /\ StoreInit

CacheSpec == CacheSpecInit /\ [][CacheNext]_vars

----------------------------------------------------------------------------
(* Properties *)

AgentRan == prev \in AgentNodes /\ ~delta.raised

\* C2: a node whose reasoning message requested a tool call in this turn does
\* not hand off to another agent node in the same turn.
C2_NoHandoffAfterToolRequest ==
    ~(AgentRan /\ prev \in tool_requesters /\ pc \in AgentNodes)

\* C3: once tool_call_count >= 10, the routing decision after any agent node
\* is the max-iteration guard, which emits a message and ends the turn.
C3_MaxIterationGuard ==
    /\ (AgentRan /\ tool_call_count >= max_tool_calls) => pc = "max_iterations"
    /\ prev = "max_iterations" => (pc = "END" /\ delta.messages # <<>>)

\* C4: once error_count >= 3, the routing decision after any agent node enters
\* neither a tool-execution node nor another agent node.
C4_ErrorBreaker ==
    (AgentRan /\ error_count >= max_errors) => pc \notin (ToolNodes \cup AgentNodes)

\* C5: while no capability-list fetch has failed, concurrent first users of the
\* pool cause one connection attempt in total.
C5_SingleConnectionAttempt ==
    fetch_failures = 0 => connection_attempts <= 1

\* the decision of the last node set two or more routing flags
TwoFlags == AgentRan /\ llm.d.kind = "ok" /\ Cardinality(llm.d.flags) >= 2

TargetOf(flag) ==
    CASE flag = "symptom" -> "symptom_agent"
      [] flag = "programme" -> "programme_eligibility_agent"
      [] flag = "doctor" -> "doctor_agent"

\* the order in which each node's decision schema declares its flags
\* (for triage also the priority its routing prompt states)
DeclaredOrder(node) ==
    CASE node = "triage" -> <<"symptom", "programme", "doctor">>
      [] node = "symptom" -> <<"programme", "doctor">>
      [] node = "program" -> <<"symptom", "doctor">>
      [] node = "doctor" -> <<"symptom", "programme">>

FirstTrue(order, F) ==
    order[CHOOSE i \in DOMAIN order :
            order[i] \in F /\ \A j \in 1 .. (i - 1) : order[j] \notin F]

LastTrue(order, F) ==
    order[CHOOSE i \in DOMAIN order :
            order[i] \in F /\ \A j \in (i + 1) .. Len(order) : order[j] \notin F]

C7_DecisionFailureIsInert ==
    (prev \in AgentNodes /\ llm.d.kind \in Failures) =>
        /\ ~delta.raised
        /\ delta.user_messages = "generic"
        /\ delta.current_agent = NoKey
        /\ delta.messages = <<>>
        /\ pc \notin (ToolNodes \cup AgentNodes)

\* C8: when the reasoning call of an agent node fails, the node still reaches
\* its structured-decision call and the failure does not leave the node.
C8_ReasoningFailureRecovered ==
    (prev \in AgentNodes /\ llm.r = ReasoningFails) =>
        /\ llm.d # NoDecision
        /\ pc # "raised"

\* a turn has just been entered with an image in the inbound message
ImageAtEntry == prev = "START" /\ Last(messages).type = "human" /\ Last(messages).image

\* C9: at turn entry an inbound image on a session whose prescription_processed
\* is not true is routed to the prescription node, whatever current_agent is.
C9_ImageRoutesToIntake ==
    (ImageAtEntry /\ ~prescription_processed) => pc = "prescription"

C9_Witness ==
    /\ ImageAtEntry
    /\ ~prescription_processed
    /\ current_agent = "doctor_agent"
    /\ pc = "prescription"

\* C10: a prescription node whose image call succeeds leaves
\* prescription_processed true; once true it stays true until the session's
\* checkpoint is deleted, and no turn is routed to the prescription node.
C10_ProcessedOnce ==
    [][/\ (prescription /\ llm'.r # ReasoningFails) => prescription_processed'
       /\ (prescription_processed /\ ~delete_redis_keys_for_user)
            => (prescription_processed' /\ pc' # "prescription")]_vars

C10_Witness ==
    /\ ImageAtEntry
    /\ prescription_processed
    /\ pc \in AgentNodes

\* C11: at turn entry with no unprocessed image the start router selects the
\* node of the current active agent, and triage when current_agent is unset or
\* not one of the four agent names.
C11_RoutesByActiveAgent ==
    (prev = "START" /\ ~(ImageAtEntry /\ ~prescription_processed)) =>
        /\ current_agent = "triage_agent" => pc = "triage"
        /\ current_agent = "symptom_agent" => pc = "symptom"
        /\ current_agent = "programme_eligibility_agent" => pc = "program"
        /\ current_agent = "doctor_agent" => pc = "doctor"
        /\ current_agent \notin AgentNames => pc = "triage"

C11_Witness ==
    /\ prev = "START"
    /\ ImageAtEntry
    /\ prescription_processed
    /\ current_agent = UnknownAgent
    /\ pc = "triage"

\* C12: the checkpoint of a session changes only when a turn completes (to the
\* final state of that turn) or when its keys are deleted: a turn that is in
\* flight or that raised leaves no trace in it.
C12_CheckpointOnlyAtTurnEnd ==
    [][redis_state' # redis_state =>
          \/ run.status = "running" /\ run'.status = "done"
                /\ redis_state' = [exists |-> TRUE, values |-> run'.values]
          \/ redis_state' = NoCheckpoint]_vars

\* C13: a logout that deletes the keys of a session with persisted state, or
\* that reports success for such a session, has written the state's durable
\* fields to longterm_session.
C13_ArchiveBeforePurge ==
    [][(logout /\ redis_state.exists
          /\ (~redis_state'.exists \/ http_response'.status = 200))
        => longterm_session' = save_state_to_longterm_session(redis_state.values)]_vars

\* C14: new-chat leaves longterm_session unchanged and, when it succeeds, no
\* checkpoint; no checkpoint appears until a message is served, and a message
\* that finds none starts from the longterm_session row with empty logs.
C14_NewChatPurgesOnly ==
    [][/\ newchat => /\ longterm_session' = longterm_session
                     /\ http_response'.status = 200 => redis_state' = NoCheckpoint
       /\ (Quiet /\ Quiet') => (redis_state'.exists => redis_state.exists)
       /\ (load_or_seed /\ ~redis_state.exists /\ run'.status = "running")
            => /\ longterm_session.exists
               /\ run'.values = [facts |-> longterm_session.facts, log |-> 0,
                                 reply |-> FALSE, fresh |-> FALSE]]_vars

\* a message is being served from a seeded state after a new-chat that found
\* and deleted a checkpoint, with a fact archived by an earlier logout
C14_Witness ==
    /\ http_response = [op |-> "new-chat", status |-> 200, state_saved |-> TRUE]
    /\ ~redis_state.exists
    /\ run.status = "running"
    /\ run.node = "START"
    /\ longterm_session.facts = MaxFacts
    /\ run.values = [facts |-> MaxFacts, log |-> 0, reply |-> FALSE, fresh |-> FALSE]

\* C15: a message that finds no checkpoint starts from the longterm_session
\* row with empty logs; when there is no row either, the request ends with no
\* result: no graph run is started and no checkpoint is written.
C15_SeedOrNoSuchUser ==
    [][/\ (load_or_seed /\ ~redis_state.exists) =>
            IF longterm_session.exists
            THEN \/ /\ run'.status = "running"
                    /\ run'.values = [facts |-> longterm_session.facts, log |-> 0,
                                      reply |-> FALSE, fresh |-> FALSE]
                 \/ /\ run' = run
                    /\ ws_pc' \in {"respond", "closed"}
            ELSE /\ result' = ResultNone
                 /\ ws_pc' = "respond"
                 /\ run' = run
                 /\ redis_state' = redis_state
       /\ (run.status = "none" /\ ws_pc \in {"load", "respond"})
            => (run'.status = "none" => redis_state' = redis_state)
       /\ ws_pc' \in {"streaming", "invoke"} => run'.status # "none"]_vars

\* a message of a user with no checkpoint and no row has been answered: no
\* run, no checkpoint, the apology in the final frame
C15_Witness ==
    /\ ws_pc = "receive"
    /\ ~redis_state.exists
    /\ ~longterm_session.exists
    /\ run.status = "none"
    /\ result = ResultNone
    /\ sent.frames = <<Frame("stream_end", "Unknown", "apology", "na")>>

\* C16: a run is never cancelled because the client has gone: the turn runs to
\* its end and its final state is checkpointed.
C16_DisconnectDoesNotCancel ==
    client = "gone" => run.status # "cancelled"

\* a message with a user id is being served
Pending == ws_pc \in {"load", "streaming", "invoke", "respond"}

\* the final frame has been sent and carries a response text
Replied ==
    /\ ws_pc = "receive"
    /\ sent.frames # <<>>
    /\ Last(sent.frames).type = "stream_end"
    /\ Last(sent.frames).detail \in {"response", "apology"}

\* no frame carries the text of an exception
NoRawError == \A i \in DOMAIN sent.frames : sent.frames[i].detail # "raw"

\* C17: every message that carries a user id is eventually answered by a final
\* frame with a response text, and no frame carries a raw error message.
C17_AlwaysAReply ==
    /\ []NoRawError
    /\ (Pending /\ client = "connected") ~> (Replied \/ client = "gone")

\* C18: when graph execution raises during a streamed turn, one error frame is
\* sent for the turn, and the final frame follows it, built from the state
\* read back from the checkpoint (the apology when that read yields nothing).
C18_OneErrorThenTurnEnd ==
    (streaming /\ run.status = "raised" /\ client = "connected") =>
        LET f == sent.frames
            n == Len(sent.frames) IN
        /\ ws_pc \in {"respond", "receive"}
        /\ sent.errors = 1
        /\ ws_pc = "respond" =>
              /\ f[n].type = "error"
              /\ \/ result = ResultNone
                 \/ /\ redis_state.exists
                    /\ result = [kind |-> "values", src |-> "checkpoint",
                                 reply |-> redis_state.values.reply,
                                 fresh |-> redis_state.values.fresh]
        /\ ws_pc = "receive" =>
              /\ n >= 2
              /\ f[n - 1].type = "error"
              /\ f[n] = stream_end(result)
              /\ f[n].type = "stream_end"
              /\ f[n].src = "checkpoint" \/ f[n].detail = "apology"

C18_Witness ==
    /\ streaming
    /\ run.status = "raised"
    /\ client = "connected"
    /\ ws_pc = "receive"
    /\ sent.errors = 1
    /\ Last(sent.frames).type = "stream_end"
    /\ Last(sent.frames).src = "checkpoint"

\* C19: in a streamed turn stream_start is the first frame and stream_end the
\* last; after a node's node_start come thinking_start and the thinking tokens,
\* then the tool_start/tool_end pairs, then response_start.
C19_EventOrder ==
    LET f == sent.frames IN
    /\ (streaming /\ run.status # "none" /\ sent.first # "") => sent.first = "stream_start"
    /\ \A i \in DOMAIN f :
         /\ f[i].type = "stream_end" => i = Len(f)
         /\ f[i].type = "thinking" =>
               \E j \in 1 .. (i - 1) : f[j].type = "thinking_start"
         /\ f[i].type = "response_start" =>
               \E j \in 1 .. (i - 1) : f[j].type = "thinking_start"
         /\ f[i].type \in {"tool_start", "tool_end"} =>
               \A j \in 1 .. (i - 1) : f[j].type # "response_start"
         /\ f[i].type = "tool_end" => (i > 1 /\ f[i - 1].type = "tool_start")

\* C20: every token frame comes from a reasoning call: none from a
\* structured-decision call, in any node.
C20_TokensOnlyFromReasoning ==
    \A i \in DOMAIN sent.frames :
        sent.frames[i].type = "thinking" => sent.frames[i].src = "reasoning"

\* C21: for one session id at most one turn is in flight at any time: no two
\* handlers serve messages of the same user at once, so a message of a user is
\* not taken up before the user's previous turn has ended and its checkpoint
\* is written.
C21_OneTurnPerSession ==
    \A j, k \in Sockets :
        (j # k /\ TurnInFlight(j) /\ TurnInFlight(k)) => socket_user[j] # socket_user[k]

\* C22: writing an empty delta (no key, or an empty list for a collection
\* channel) leaves every channel as it is, whatever the channel's merge policy:
\* overwrite, append, merge_symptoms or deduplicate_merge.
C22_EmptyDeltaIsNoOp ==
    /\ ApplyUpdate(channels, Write("no key", <<>>)) = channels
    /\ \A k \in {"messages", "user_messages", "symptoms_collected", "shared_facts",
                 "doctor_collected", "red_flags"} :
          ApplyUpdate(channels, Write(k, <<>>)) = channels

C22_Witness ==
    /\ Len(channels.messages) >= 2
    /\ Len(channels.user_messages) >= 2
    /\ Len(channels.symptoms_collected) >= 2
    /\ Len(channels.shared_facts) >= 2
    /\ channels.detected_urgency = "High"
    /\ \E i \in 1 .. Len(channels.symptoms_collected) :
          Len(channels.symptoms_collected[i].symptom) = 7

\* C23: merge_symptoms upserts by symptom name.  An incoming entry whose name
\* matches an existing entry leaves the other entries and the list's length
\* alone; severity, duration and location change only if the incoming value is
\* non-empty, and then to the incoming value; additional_details is never
\* replaced: it stays, or the incoming text is appended after "; ", and a text
\* it already holds is not appended again.  {fever, mild} merged with {fever,
\* high, 'spiked at night'} gives {fever, high, 'spiked at night'}, and a
\* further {fever, 'also chills'} gives 'spiked at night; also chills' with
\* severity high.
C23_UpsertBySymptomName ==
    /\ merge_symptoms(<<Symptom(Text.fever, Text.mild, None, None, None)>>,
                      <<Symptom(Text.fever, Text.high, None, None, Text.spiked_at_night)>>)
          = <<Symptom(Text.fever, Text.high, None, None, Text.spiked_at_night)>>
    /\ merge_symptoms(<<Symptom(Text.fever, Text.high, None, None, Text.spiked_at_night)>>,
                      <<Symptom(Text.fever, None, None, None, Text.also_chills)>>)
          = <<Symptom(Text.fever, Text.high, None, None,
                      Text.spiked_at_night \o <<";", " ">> \o Text.also_chills)>>
    /\ \A inc \in IncomingSymptoms :
        \A i \in 1 .. Len(channels.symptoms_collected) :
          LET old == channels.symptoms_collected[i]
              new == merge_symptoms(channels.symptoms_collected, <<inc>>)
              Empty(v) == v = None \/ strip(v) = <<>> IN
          (~Empty(inc.symptom) /\ lower(strip(inc.symptom)) = lower(strip(old.symptom)))
          =>
          /\ Len(new) = Len(channels.symptoms_collected)
          /\ \A j \in 1 .. Len(new) : j # i => new[j] = channels.symptoms_collected[j]
          /\ new[i].symptom = old.symptom
          /\ new[i].severity # old.severity
                => ~Empty(inc.severity) /\ new[i].severity = strip(inc.severity)
          /\ new[i].duration # old.duration
                => ~Empty(inc.duration) /\ new[i].duration = strip(inc.duration)
          /\ new[i].location # old.location
                => ~Empty(inc.location) /\ new[i].location = strip(inc.location)
          /\ new[i].additional_details # old.additional_details
                => /\ ~Empty(inc.additional_details)
                   /\ ~Contains(lower(old.additional_details),
                                lower(strip(inc.additional_details)))
                   /\ new[i].additional_details =
                         IF old.additional_details = None
                         THEN strip(inc.additional_details)
                         ELSE old.additional_details \o <<";", " ">>
                              \o strip(inc.additional_details)

C23_Witness ==
    channels.symptoms_collected =
        <<Symptom(Text.fever, Text.high, None, None,
                  Text.spiked_at_night \o <<";", " ">> \o Text.also_chills)>>

\* C24: deduplicate_merge returns the existing entries in their order, followed
\* by the new entries that are not present yet, in the order they are first
\* seen, without duplicates when entries are compared with surrounding
\* whitespace removed; ['a','b'] merged with ['b','c'] is ['a','b','c'].
C24_DedupKeepsOrder ==
    /\ deduplicate_merge(<<Text.a, Text.b>>, <<Text.b, Text.c>>)
          = <<Text.a, Text.b, Text.c>>
    /\ \A new \in IncomingFacts :
          LET cur == channels.shared_facts
              res == deduplicate_merge(cur, new)
              Clean == [i \in 1 .. Len(new) |-> strip(new[i])]
              First(x) == CHOOSE i \in 1 .. Len(new) :
                              Clean[i] = x /\ \A j \in 1 .. i - 1 : Clean[j] # x IN
          /\ Len(res) >= Len(cur)
          /\ SubSeq(res, 1, Len(cur)) = cur
          /\ \A p, q \in 1 .. Len(res) : p # q => strip(res[p]) # strip(res[q])
          /\ {res[p] : p \in 1 .. Len(res)} =
                {cur[p] : p \in 1 .. Len(cur)}
                \cup ({Clean[i] : i \in 1 .. Len(new)} \ {<<>>})
          /\ \A p, q \in Len(cur) + 1 .. Len(res) :
                p < q => First(res[p]) < First(res[q])

C24_Witness == channels.shared_facts = <<Text.a, Text.b, Text.c>>

\* C25: messages and user_messages only grow within a session: every turn
\* entry and every node's delta leaves the previous log as a prefix of the new
\* one; only the deletion of the thread's keys empties them.
C25_LogsOnlyGrow ==
    [][\/ channels' = EmptyChannels
       \/ /\ Len(channels'.messages) >= Len(channels.messages)
          /\ SubSeq(channels'.messages, 1, Len(channels.messages)) = channels.messages
          /\ Len(channels'.user_messages) >= Len(channels.user_messages)
          /\ SubSeq(channels'.user_messages, 1, Len(channels.user_messages))
                = channels.user_messages]_vars

C25_Witness ==
    /\ channels.messages = <<"human", "tool">>
    /\ channels.user_messages = <<"human", "ai">>

\* C26: in every reachable state current_agent is unset or one of triage_agent,
\* symptom_agent, programme_eligibility_agent, doctor_agent, and the start
\* router maps it to a node of the graph.
C26_ActiveAgentNamesANode ==
    /\ current_agent \in AgentNames \cup {Default}
    /\ ByCurrentAgent(current_agent) \in AgentNodes

C26_Witness ==
    /\ current_agent = "programme_eligibility_agent"
    /\ prev = "doctor"
    /\ delta.current_agent = "programme_eligibility_agent"

\* C27: execute_tool_calls returns one message for each requested call, in the
\* order of the calls and with the call's id and name: status success when the
\* tool ran, status error when the name is not in the cache or the tool raised;
\* while the batch runs the messages so far answer the first calls, and a call
\* that failed is followed by the next call.
C27_OneResultPerCall ==
    /\ Len(tool_messages) <= Len(tool_calls)
    /\ exec_pc = "returned" => Len(tool_messages) = Len(tool_calls)
    /\ exec_pc = "loop" => Len(tool_messages) < Len(tool_calls)
    /\ \A i \in 1 .. Len(tool_messages) :
          /\ tool_messages[i].tool_call_id = tool_calls[i].id
          /\ tool_messages[i].name = tool_calls[i].name
          /\ tool_messages[i].status =
                IF tool_messages[i].content = "str(result)" THEN "success" ELSE "error"
          /\ tool_calls[i].name = "Unlisted_Tool" => tool_messages[i].status = "error"

C27_Witness ==
    /\ exec_pc = "returned"
    /\ Len(tool_calls) = 2
    /\ tool_messages[1].status = "error"
    /\ tool_messages[1].content = "Error executing"
    /\ tool_messages[2].status = "success"

\* C28: get_tools(allowed_tools) returns the cached tools whose names are in
\* allowed_tools and no others, returns a list also when a requested name is
\* not in the cache, and returns the whole list when allowed_tools is None.
C28_GetToolsFilters ==
    [][(allowed_tools' # allowed_tools \/ filtered' # filtered)
       => IF allowed_tools' = None
          THEN filtered' = all_tools
          ELSE /\ {filtered'[i] : i \in 1 .. Len(filtered')}
                    = tools_by_name \cap {allowed_tools'[i] : i \in 1 .. Len(allowed_tools')}
               /\ Len(filtered') <= Len(allowed_tools')]_vars

C28_Witness ==
    /\ allowed_tools = <<"Doctor_KB_Smart_Query", "Unlisted_Tool">>
    /\ filtered = <<"Doctor_KB_Smart_Query">>

\* C29: when the fetch of the pool's initialization fails, the task that
\* awaited it gets the exception, _initialized and the cache are as they were
\* (an uninitialized pool stays uninitialized, with no cached tools), and the
\* next task that reaches get_tools on the uninitialized pool starts the
\* initialization again.
C29_FailedInitLeavesPoolForRetry ==
    [][/\ fetch_failures' # fetch_failures
          => /\ \E t \in Tasks : task_pc[t] \in {"get_instance_fetch", "get_tools_fetch"}
                                  /\ task_pc'[t] = "raised"
             /\ pool_initialized' = pool_initialized
             /\ all_tools' = all_tools
             /\ tools_by_name' = tools_by_name
             /\ ~pool_initialized => (all_tools' = <<>> /\ tools_by_name' = {})
       /\ \A t \in Tasks :
            (task_pc[t] = "start" /\ task_pc'[t] # "start"
             /\ pool_instance = "pool" /\ ~pool_initialized)
            => /\ task_pc'[t] = "get_tools_fetch"
               /\ connection_attempts' = connection_attempts + 1]_vars

C29_Witness ==
    /\ fetch_failures = 1
    /\ connection_attempts = 2
    /\ pool_initialized
    /\ all_tools = InitialTools
    /\ \E t, u \in Tasks : task_pc[t] = "raised" /\ task_pc[u] = "done"

\* C30: refresh_tools replaces the cache as a whole: in every state a reader can
\* run in, the name map and the tool list hold the same tools; a step that
\* changes the cache sets both to the list fetched from the server; a refresh
\* whose fetch raises leaves both as they were.
C30_RefreshIsWholesale ==
    [][/\ tools_by_name' = {all_tools'[i] : i \in 1 .. Len(all_tools')}
       /\ (all_tools' # all_tools \/ tools_by_name' # tools_by_name)
            => (all_tools' = server_tools /\ refresh_pc = "fetch" /\ refresh_pc' = "idle")
       /\ refresh_pc' = "raised"
            => (all_tools' = all_tools /\ tools_by_name' = tools_by_name)]_vars

C30_Witness ==
    /\ all_tools = <<"Find_Nearest_Medical_Facility">>
    /\ tools_by_name = {"Find_Nearest_Medical_Facility"}
    /\ exec_pc = "loop"
    /\ Len(tool_messages) = 1
    /\ tool_messages[1].name = "Doctor_KB_Smart_Query"
    /\ tool_messages[1].status = "success"

\* C31: an execution of a tool-execution node returns one tool-result entry for
\* each call the last message requested, tool_call_count raised by the number
\* of calls and error_count raised by the number of entries with status error;
\* the log gets these entries, the counters get these values, and the next
\* node is the agent node that requested the calls.
C31_ToolNodeAccounting ==
    [][tools =>
        LET n == Last(messages).tool_calls
            failed == {i \in 1 .. Len(delta'.messages) : delta'.messages[i].status = "error"} IN
        /\ n > 0
        /\ Len(delta'.messages) = n
        /\ \A i \in 1 .. n : delta'.messages[i].type = "tool"
        /\ messages' = Retain(messages \o delta'.messages)
        /\ delta'.tool_call_count = tool_call_count + n
        /\ delta'.error_count = error_count + Cardinality(failed)
        /\ tool_call_count' = Min(tool_call_count + n, ToolCountCap)
        /\ error_count' = Min(error_count + Cardinality(failed), ErrCountCap)
        /\ prev \in AgentNodes
        /\ pc' = prev
        /\ OwnerOf(pc) = prev]_vars

C31_Witness ==
    /\ prev = "program_tools"
    /\ pc = "program"
    /\ delta.messages = <<ToolMessage("error"), ToolMessage("error")>>
    /\ tool_call_count = 4
    /\ error_count = 2

\* C32: the instance get_instance returns is initialized when it is returned,
\* for the task that created it and for every task that finds it already
\* published: _initialized is true and the tool cache is loaded.
C32_ReturnedInstanceIsInitialized ==
    [][\A t \in Tasks :
        /\ (task_pc[t] = "start" /\ task_pc'[t] # "start" /\ pool_instance = "pool")
              => (pool_initialized /\ pool_tools_loaded)
        /\ (task_pc[t] = "get_instance_fetch" /\ task_pc'[t] = "done")
              => (pool_initialized' /\ pool_tools_loaded')]_vars

\* C33: once urgency_checked is true the urgency node returns an empty delta
\* whatever its call would answer, and no step but the deletion of the
\* thread's keys changes detected_urgency or clears urgency_checked.
C33_UrgencyClassifiedOnce ==
    [][channels.urgency_checked =>
         /\ \A response \in UrgencyLevels \cup {"raise", "none"} :
               UrgencyDetectorNode_run(channels, response)
                  = [detected_urgency |-> <<>>, urgency_checked |-> <<>>]
         /\ \/ channels' = EmptyChannels
            \/ /\ channels'.urgency_checked
               /\ channels'.detected_urgency = channels.detected_urgency]_vars

\* the session was classified Low before any symptom was known; now it holds a
\* symptom and a red flag, a later turn has begun, and the level is still Low
C33_Witness ==
    /\ channels.urgency_checked
    /\ channels.detected_urgency = "Low"
    /\ channels.symptoms_collected # <<>>
    /\ channels.red_flags = <<Text.chest>>
    /\ Len(channels.messages) = 2

\* C34: the entry of a turn on a thread that has a checkpoint appends the
\* inbound message to messages and to user_messages and changes no other
\* channel: doctor_collected, symptoms_collected, shared_facts and the rest
\* are as the checkpoint holds them.
C34_TurnEntryAppendsOnly ==
    [][(graph_input /\ channels # EmptyChannels) =>
         channels' = [channels EXCEPT !.messages = @ \o <<"human">>,
                                      !.user_messages = @ \o <<"human">>]]_vars

\* C35: logout and new-chat of a user delete keys of that user's thread only:
\* the checkpoint of every other user is as it was, also when the other
\* user's id begins with this user's id (user 10 and user 1).
C35_PurgeTouchesOwnKeysOnly ==
    [][\A a \in StoreUsers :
         (logout_user(a) \/ newchat_user(a))
         => \A b \in StoreUsers \ {a} : checkpoints'[b] = checkpoints[b]]_vars

\* C36: a logout of a user changes the user's row only to the state of the
\* user's own checkpoint; without a checkpoint of its own the row stays.
C36_ArchiveReadsOwnCheckpoint ==
    [][\A a \in StoreUsers :
         logout_user(a)
         => \/ rows'[a] = rows[a]
            \/ /\ checkpoints[a].exists
               /\ rows'[a] = [user_name |-> checkpoints[a].user_name,
                              facts |-> checkpoints[a].facts]]_vars

\* C37: tool_call_count and error_count never decrease while the thread's
\* keys are kept: no turn entry, node or handoff resets them, so a session
\* that has reached max_errors or max_tool_calls stays there on every later
\* turn until its keys are deleted.
C37_CountersNeverDecrease ==
    [][~delete_redis_keys_for_user =>
         /\ tool_call_count' >= tool_call_count
         /\ error_count' >= error_count
         /\ (error_count >= max_errors => error_count' >= max_errors)
         /\ (tool_call_count >= max_tool_calls => tool_call_count' >= max_tool_calls)]_vars

\* a later turn of a session whose error breaker tripped in an earlier turn
C37_Witness ==
    /\ prev = "START"
    /\ error_count >= max_errors
    /\ tool_call_count >= max_errors
    /\ Last(messages).type = "human"

\* C40: a turn routed to the prescription node runs that node alone (it is
\* entered from START and leads to END) and leaves current_agent,
\* tool_call_count and error_count as they were; the next message without an
\* image is routed by the current_agent the session had before the image.
C40_PrescriptionTurnKeepsAgent ==
    [][/\ prescription =>
            /\ prev = "START"
            /\ pc' = "END"
            /\ current_agent' = current_agent
            /\ tool_call_count' = tool_call_count
            /\ error_count' = error_count
       /\ (prev = "prescription" /\ NewMessage /\ ~Last(messages').image) =>
            pc' = ByCurrentAgent(current_agent)]_vars

\* the prescription node has ended the turn of a session that the doctor
\* agent holds and that has executed tools
C40_Witness ==
    /\ prev = "prescription"
    /\ pc = "END"
    /\ current_agent = "doctor_agent"
    /\ prescription_processed
    /\ tool_call_count > 0

\* C38: symptoms_collected never holds two entries whose names are equal
\* once trimmed and lower-cased, and while the thread's keys are kept every
\* entry stays at its place in the list under its name: writes only update
\* entries in place or append new names.
C38_OneEntryPerSymptomName ==
    [][LET old == channels.symptoms_collected
           new == channels'.symptoms_collected IN
       /\ \A i, j \in 1 .. Len(new) :
             lower(strip(new[i].symptom)) = lower(strip(new[j].symptom)) => i = j
       /\ ~purge =>
             /\ Len(new) >= Len(old)
             /\ \A i \in 1 .. Len(old) :
                   lower(strip(new[i].symptom)) = lower(strip(old[i].symptom))]_vars

\* an entry first written as " Fever " was updated by a later write of
\* "fever" and is followed by the entry of another name
C38_Witness ==
    /\ Len(channels.symptoms_collected) = 2
    /\ channels.symptoms_collected[1].symptom = Text.Fever_padded
    /\ channels.symptoms_collected[1].severity = Text.high
    /\ channels.symptoms_collected[2].symptom = Text.cough

\* C39: the response text of a turn's final frame is an AIMessage that was
\* written to user_messages during that turn, after the turn's HumanMessage,
\* whichever path the turn took; it is never one that an earlier turn left.
C39_ResponseIsFromThisTurn ==
    (ws_pc = "respond" /\ stream_end(result).detail = "response") => result.fresh

====
